---- MODULE Spec2Model ----
(***************************************************************************)
(* A model of mpw-rs: the Master Password algorithm (src/src/algorithm.rs), *)
(* the site configuration (src/src/config.rs) and the part of main          *)
(* (src/src/main.rs) that resolves a site to a credential.                  *)
(*                                                                         *)
(* Bytes are the integers 0..255.  A slice or a Vec<u8> is a sequence of    *)
(* bytes.  A function that can panic returns a record [ok, val]: ok is      *)
(* FALSE when the code panics.                                              *)
(***************************************************************************)
EXTENDS Integers, Sequences, FiniteSets, TLC

VARIABLES
    \* encrypt / decrypt (algorithm.rs 488-530)
    clear_text,     \* the clear text handed to encrypt
    master_key,     \* the 64 byte master key handed to encrypt
    buffer,         \* the working buffer: encrypt and decrypt work in place
    extra,          \* the buffer's length less min_buffer_len(clear_text.len())
    dec_key,        \* the 64 byte master key handed to decrypt
    decrypted,      \* what decrypt returned: [ok, val]
    tamper,         \* what happened to the buffer between encrypt and decrypt
    cpc,            \* "idle", "init", "sealed", "done" or "panic" (encrypt panicked)
    \* password_for_site_v3 / random_password_for_site (algorithm.rs 251-305)
    call,           \* the function called: "password_for_site_v3",
                    \* "random_password_for_site" or "none"
    site_name,      \* the arguments of password_for_site_v3
    site_type,
    site_counter,
    site_variant,
    site_context,
    site_password_salt, \* the message handed to hmac::sign
    seed,           \* the seed handed to generate_password
    password,       \* what the call returned: [ok, val]
    gpc,            \* "idle", "init" or "done"
    \* Site::from_config (config.rs 152-188) and the loop of main that
    \* generates or decrypts the passwords (main.rs 321-361)
    site_config,    \* the SiteConfig of the iteration
    param_site_name, \* the site given on the command line, if any
    site,           \* what Site::from_config returned: [ok, val]
    outcome,        \* what the iteration did: [kind, text]
    rpc,            \* "idle", "init", "site" (from_config returned) or "done"
    \* SiteVariant and SiteType as strings (algorithm.rs 42-155)
    codec,          \* "SiteVariant", "SiteType" or "none"
    codec_text,     \* the string handed to from_str
    codec_value,    \* the value that is serialized
    codec_decoded,  \* what from_str returned for codec_text: an Option
    codec_serialized, \* the string handed to serialize_str for codec_value
    codec_redecoded, \* what from_str returned for that string: an Option
    kpc,            \* "idle", "init", "decoded", "serialized" or "done"
    \* identicon (algorithm.rs 406-434)
    full_name,      \* the arguments of identicon
    master_password,
    identicon_seed, \* the digest of hmac::sign
    icon,           \* what identicon returned: [ok, val], val the glyphs
    ipc,            \* "idle", "init" or "done"
    \* ClearOnDrop (clear_on_drop.rs 103-149)
    container,      \* the wrapped container: [kind, mem, len], mem the bytes
                    \* of its allocation (its capacity) and len its length
    freed,          \* the allocations that a reallocation of the container
                    \* gave back, with the bytes they held
    mutations,      \* the number of calls made through deref_mut
    dpc,            \* "idle", "alive" or "dropped"
    \* a run of main that prints one password (main.rs 47-59 and 301-362)
    user,           \* [full_name, master_password]: the name of the config
                    \* and the password that is typed
    target,         \* the Site of the iteration
    containers,     \* for each variable of the source that holds bytes of
                    \* the run: [holds, wrapped, state]
    printed,        \* what the iteration did: [kind, text]
    spc,            \* the position of the run
    \* pad / unpad (algorithm.rs 454-486)
    pad_buf,        \* the buffer handed to pad
    pad_len,        \* the length handed to pad
    pad_extra,      \* the buffer's length less max(pad_len + 1, PAD_LEN)
    pad_result,     \* the buffer after pad: [ok, val]
    unpadded,       \* what unpad returned for it: [ok, val]
    ppc,            \* "idle", "init", "padded" or "done"
    \* Config::merge (config.rs 75-89)
    config_self,    \* the Config that is merged into: [full_name, sites]
    config_first,   \* config_self before the first merge
    config_before,  \* config_self before the last merge
    merged,         \* the Configs merged into config so far, in order
    cmpc,           \* "idle" or "run"
    \* SiteConfig::merge (config.rs 120-138)
    site_self,      \* the SiteConfig that is merged into, before the call
    site_other,     \* the SiteConfig that is merged into it
    site_after,     \* site_self after the call
    merge_result,   \* what merge returned: Ok(()) or Err(kind)
    smpc,           \* "idle", "init" or "done"
    \* the runs of main that overwrite the config file (main.rs 207-299)
    file,           \* the Config in the config file: [full_name, sites]
    file_before,    \* the Config in the file before the last run
    run_mode,       \* the last run: "add", "replace", "delete", "store" or "plain"
    run_params,     \* its parameters: [full_name, site], site a SiteConfig
    run_outcome,    \* what it did: [kind, text], kind "write", "exit", ...
    run_typed,      \* the master password that was typed in it, if any
    run_printed,    \* the passwords it printed: a sequence of [name, password]
    stored_names,   \* the names of the sites that --store runs have written
    runs,           \* the number of runs
    \* test_template_entropy (algorithm.rs 550-572)
    ent_type,       \* the type whose bits are calculated
    ent_template,   \* the number of templates of the type taken so far
    ent_pos,        \* the number of classes of the template added so far
    ent_bits,       \* bits of entropy_of_template, in millionths of a bit
    ent_min,        \* min of bits(ty), in millionths of a bit
    epc,            \* "templates", "classes", "asserted" or "panic"
    \* two calls of password_for_site_v3 (algorithm.rs 252-270)
    first_site,     \* the first call: [variant, name, counter, context]
    second_site,    \* the second call: [variant, name, counter, context]
    first_salt,     \* site_password_salt of the first call
    second_salt,    \* site_password_salt of the second call
    hpc             \* "init", "first" or "done"

cryptVars == <<clear_text, buffer, extra, dec_key, decrypted, tamper, cpc>>

deriveVars == <<call, site_name, site_type, site_counter, site_variant, site_context,
                site_password_salt, seed, password, gpc>>

siteVars == <<site_config, param_site_name, site, outcome, rpc>>

codecVars == <<codec, codec_text, codec_value, codec_decoded, codec_serialized,
               codec_redecoded, kpc>>

iconVars == <<full_name, master_password, identicon_seed, icon, ipc>>

dropVars == <<container, freed, mutations, dpc>>

secretVars == <<user, target, containers, printed, spc>>

padVars == <<pad_buf, pad_len, pad_extra, pad_result, unpadded, ppc>>

configMergeVars == <<config_self, config_first, config_before, merged, cmpc>>

siteMergeVars == <<site_self, site_other, site_after, merge_result, smpc>>

fileVars == <<file, file_before, run_mode, run_params, run_outcome, run_typed,
              run_printed, stored_names, runs>>

entropyVars == <<ent_type, ent_template, ent_pos, ent_bits, ent_min, epc>>

saltVars == <<first_site, second_site, first_salt, second_salt, hpc>>

\* The variables of the specifications that follow the first three.
otherVars == <<codecVars, iconVars, dropVars, secretVars, padVars, configMergeVars, siteMergeVars, fileVars, entropyVars, saltVars>>

vars == <<master_key, cryptVars, deriveVars, siteVars, otherVars>>

-----------------------------------------------------------------------------
(* Results of code that can panic. *)

Ok(v) == [ok |-> TRUE, val |-> v]

Panicked == [ok |-> FALSE, val |-> <<>>]

\* Option<T>: None is the empty sequence, Some(v) is <<v>>.
None == <<>>

Some(v) == <<v>>

\* opt.unwrap_or(default)
unwrap_or(opt, default) == IF opt = None THEN default ELSE opt[1]

\* Result<T, E>::Err(e)
Err(e) == [ok |-> FALSE, val |-> e]

\* The variables of the functions that a specification does not call.
IdleCrypt ==
    /\ clear_text = <<>>
    /\ buffer = <<>>
    /\ extra = 0
    /\ dec_key = master_key
    /\ decrypted = Panicked
    /\ tamper = "none"
    /\ cpc = "idle"

IdleDerive ==
    /\ call = "none"
    /\ site_name = <<>>
    /\ site_type = "Stored"
    /\ site_counter = 0
    /\ site_variant = "Password"
    /\ site_context = <<>>
    /\ site_password_salt = <<>>
    /\ seed = <<>>
    /\ password = Panicked
    /\ gpc = "idle"

IdleSite ==
    /\ site_config = <<>>
    /\ param_site_name = <<>>
    /\ site = Panicked
    /\ outcome = [kind |-> "none", text |-> <<>>]
    /\ rpc = "idle"

IdleCodec ==
    /\ codec = "none"
    /\ codec_text = ""
    /\ codec_value = "none"
    /\ codec_decoded = None
    /\ codec_serialized = ""
    /\ codec_redecoded = None
    /\ kpc = "idle"

IdleIcon ==
    /\ full_name = <<>>
    /\ master_password = <<>>
    /\ identicon_seed = <<>>
    /\ icon = Panicked
    /\ ipc = "idle"

IdleDrop ==
    /\ container = [kind |-> "none", mem |-> <<>>, len |-> 0]
    /\ freed = {}
    /\ mutations = 0
    /\ dpc = "idle"

IdleSecret ==
    /\ user = [full_name |-> <<>>, master_password |-> <<>>]
    /\ target = <<>>
    /\ containers = <<>>
    /\ printed = [kind |-> "none", text |-> <<>>]
    /\ spc = "idle"

IdlePad ==
    /\ pad_buf = <<>>
    /\ pad_len = 0
    /\ pad_extra = 0
    /\ pad_result = Panicked
    /\ unpadded = Panicked
    /\ ppc = "idle"

IdleConfigMerge ==
    /\ config_self = [full_name |-> None, sites |-> None]
    /\ config_first = [full_name |-> None, sites |-> None]
    /\ config_before = [full_name |-> None, sites |-> None]
    /\ merged = <<>>
    /\ cmpc = "idle"

IdleSiteMerge ==
    /\ site_self = <<>>
    /\ site_other = <<>>
    /\ site_after = <<>>
    /\ merge_result = Panicked
    /\ smpc = "idle"

IdleFile ==
    /\ file = [full_name |-> None, sites |-> None]
    /\ file_before = [full_name |-> None, sites |-> None]
    /\ run_mode = "none"
    /\ run_params = <<>>
    /\ run_outcome = [kind |-> "none", text |-> <<>>]
    /\ run_typed = None
    /\ run_printed = <<>>
    /\ stored_names = {}
    /\ runs = 0

IdleEntropy ==
    /\ ent_type = "GeneratedPIN"
    /\ ent_template = 0
    /\ ent_pos = 0
    /\ ent_bits = 0
    /\ ent_min = 0
    /\ epc = "idle"

IdleSalt ==
    /\ first_site = <<>>
    /\ second_site = <<>>
    /\ first_salt = <<>>
    /\ second_salt = <<>>
    /\ hpc = "idle"

IdleOther == IdleCodec /\ IdleIcon /\ IdleDrop /\ IdleSecret /\ IdlePad /\ IdleConfigMerge /\ IdleSiteMerge /\ IdleFile /\ IdleEntropy /\ IdleSalt

\* What a later specification leaves alone: the variables of the others.
besidesCodec == <<master_key, cryptVars, deriveVars, siteVars, iconVars, dropVars, secretVars, padVars, configMergeVars, siteMergeVars, fileVars, entropyVars, saltVars>>

IdleBesidesCodec ==
    /\ master_key = [i \in 1..64 |-> 1]
    /\ IdleCrypt /\ IdleDerive /\ IdleSite /\ IdleIcon /\ IdleDrop /\ IdleSecret /\ IdlePad /\ IdleConfigMerge /\ IdleSiteMerge /\ IdleFile /\ IdleEntropy /\ IdleSalt

besidesIcon == <<master_key, cryptVars, deriveVars, siteVars, codecVars, dropVars, secretVars, padVars, configMergeVars, siteMergeVars, fileVars, entropyVars, saltVars>>

IdleBesidesIcon ==
    /\ master_key = [i \in 1..64 |-> 1]
    /\ IdleCrypt /\ IdleDerive /\ IdleSite /\ IdleCodec /\ IdleDrop /\ IdleSecret /\ IdlePad /\ IdleConfigMerge /\ IdleSiteMerge /\ IdleFile /\ IdleEntropy /\ IdleSalt

besidesDrop == <<master_key, cryptVars, deriveVars, siteVars, codecVars, iconVars, secretVars, padVars, configMergeVars, siteMergeVars, fileVars, entropyVars, saltVars>>

IdleBesidesDrop ==
    /\ master_key = [i \in 1..64 |-> 1]
    /\ IdleCrypt /\ IdleDerive /\ IdleSite /\ IdleCodec /\ IdleIcon /\ IdleSecret /\ IdlePad /\ IdleConfigMerge /\ IdleSiteMerge /\ IdleFile /\ IdleEntropy /\ IdleSalt

besidesSecret == <<master_key, cryptVars, deriveVars, siteVars, codecVars, iconVars, dropVars, padVars, configMergeVars, siteMergeVars, fileVars, entropyVars, saltVars>>

IdleBesidesSecret ==
    /\ master_key = [i \in 1..64 |-> 1]
    /\ IdleCrypt /\ IdleDerive /\ IdleSite /\ IdleCodec /\ IdleIcon /\ IdleDrop /\ IdlePad /\ IdleConfigMerge /\ IdleSiteMerge /\ IdleFile /\ IdleEntropy /\ IdleSalt

besidesPad == <<master_key, cryptVars, deriveVars, siteVars, codecVars, iconVars, dropVars, secretVars, configMergeVars, siteMergeVars, fileVars, entropyVars, saltVars>>

IdleBesidesPad ==
    /\ master_key = [i \in 1..64 |-> 1]
    /\ IdleCrypt /\ IdleDerive /\ IdleSite /\ IdleCodec /\ IdleIcon /\ IdleDrop /\ IdleSecret /\ IdleConfigMerge /\ IdleSiteMerge /\ IdleFile /\ IdleEntropy /\ IdleSalt

besidesConfigMerge == <<master_key, cryptVars, deriveVars, siteVars, codecVars, iconVars, dropVars, secretVars, padVars, siteMergeVars, fileVars, entropyVars, saltVars>>

IdleBesidesConfigMerge ==
    /\ master_key = [i \in 1..64 |-> 1]
    /\ IdleCrypt /\ IdleDerive /\ IdleSite /\ IdleCodec /\ IdleIcon /\ IdleDrop /\ IdleSecret /\ IdlePad /\ IdleSiteMerge /\ IdleFile /\ IdleEntropy /\ IdleSalt

besidesSiteMerge == <<master_key, cryptVars, deriveVars, siteVars, codecVars, iconVars, dropVars, secretVars, padVars, configMergeVars, fileVars, entropyVars, saltVars>>

IdleBesidesSiteMerge ==
    /\ master_key = [i \in 1..64 |-> 1]
    /\ IdleCrypt /\ IdleDerive /\ IdleSite /\ IdleCodec /\ IdleIcon /\ IdleDrop /\ IdleSecret /\ IdlePad /\ IdleConfigMerge /\ IdleFile /\ IdleEntropy /\ IdleSalt

besidesFile == <<master_key, cryptVars, deriveVars, siteVars, codecVars, iconVars, dropVars, secretVars, padVars, configMergeVars, siteMergeVars, entropyVars, saltVars>>

IdleBesidesFile ==
    /\ master_key = [i \in 1..64 |-> 1]
    /\ IdleCrypt /\ IdleDerive /\ IdleSite /\ IdleCodec /\ IdleIcon /\ IdleDrop /\ IdleSecret /\ IdlePad /\ IdleConfigMerge /\ IdleSiteMerge /\ IdleEntropy /\ IdleSalt

besidesEntropy == <<master_key, cryptVars, deriveVars, siteVars, codecVars, iconVars, dropVars, secretVars, padVars, configMergeVars, siteMergeVars, fileVars, saltVars>>

IdleBesidesEntropy ==
    /\ master_key = [i \in 1..64 |-> 1]
    /\ IdleCrypt /\ IdleDerive /\ IdleSite /\ IdleCodec /\ IdleIcon /\ IdleDrop /\ IdleSecret /\ IdlePad /\ IdleConfigMerge /\ IdleSiteMerge /\ IdleFile /\ IdleSalt

besidesSalt == <<master_key, cryptVars, deriveVars, siteVars, codecVars, iconVars, dropVars, secretVars, padVars, configMergeVars, siteMergeVars, fileVars, entropyVars>>

IdleBesidesSalt ==
    /\ master_key = [i \in 1..64 |-> 1]
    /\ IdleCrypt /\ IdleDerive /\ IdleSite /\ IdleCodec /\ IdleIcon /\ IdleDrop /\ IdleSecret /\ IdlePad /\ IdleConfigMerge /\ IdleSiteMerge /\ IdleFile /\ IdleEntropy

Max(a, b) == IF a >= b THEN a ELSE b

RECURSIVE SumTo(_, _)
SumTo(s, n) == IF n = 0 THEN 0 ELSE s[n] + SumTo(s, n - 1)

Sum(s) == SumTo(s, Len(s))

\* seq[from..to] of Rust, 0-based and half open, as a sequence
Slice(s, from, to) == SubSeq(s, from + 1, to)

Fill(n, b) == [i \in 1..n |-> b]

-----------------------------------------------------------------------------
(* Padding: algorithm.rs 436-486 *)

NONCE_LEN == 12

PAD_LEN == 20

MAX_TAG_LEN == 16

KEY_LEN == 64

AEAD_KEY_LEN == 32

padded_len(clear_text_len) == Max(clear_text_len + 1, PAD_LEN)

\* The mutant of min_buffer_len: the nonce is not counted.
min_buffer_len_no_nonce(clear_text_len) ==
    padded_len(clear_text_len) + MAX_TAG_LEN

min_buffer_len(clear_text_len) ==
    padded_len(clear_text_len) + NONCE_LEN + MAX_TAG_LEN

\* The mutant of pad: the padding byte of a short text is one too small.
pad_byte_too_small(buf, len) ==
    IF Len(buf) < PAD_LEN \/ Len(buf) < len + 1
    THEN Panicked
    ELSE LET padding_byte == IF len >= PAD_LEN THEN 0 ELSE PAD_LEN - len - 1
         IN  Ok([i \in 1..Len(buf) |-> IF i > len THEN padding_byte ELSE buf[i]])

\* pad(buf, len): both assertions, then every byte of buf[len..] is set to
\* the padding byte.
pad(buf, len) ==
    IF Len(buf) < PAD_LEN \/ Len(buf) < len + 1
    THEN Panicked
    ELSE LET padding_byte == IF len >= PAD_LEN THEN 0 ELSE PAD_LEN - len
         IN  Ok([i \in 1..Len(buf) |-> IF i > len THEN padding_byte ELSE buf[i]])

\* The mutant of unpad: the zero marker of a long clear text is not stripped.
unpad_keeps_marker(buf, debug) ==
    IF Len(buf) = 0 THEN Panicked
    ELSE Ok(Slice(buf, 0, Len(buf) - buf[Len(buf)]))

\* unpad(buf): the last byte says how many bytes to strip; 0 strips one.
\* buf[buf.len() - 1] and buf[buf.len() - padding_size..] panic when the
\* subtraction underflows; debug_assert_eq! panics in a debug build only.
unpad(buf, debug) ==
    IF Len(buf) = 0 THEN Panicked
    ELSE LET padding_byte == buf[Len(buf)]
             padding_size == padding_byte
         IN  IF padding_size > Len(buf) THEN Panicked
             ELSE IF debug /\ \E i \in (Len(buf) - padding_size + 1)..Len(buf) :
                                  buf[i] # padding_byte
             THEN Panicked
             ELSE IF padding_byte # 0
             THEN Ok(Slice(buf, 0, Len(buf) - padding_size))
             ELSE Ok(Slice(buf, 0, Len(buf) - 1))

-----------------------------------------------------------------------------
(* ring::aead with CHACHA20_POLY1305, as encrypt and decrypt use it         *)
(* (algorithm.rs 511-515 and 523-528).  The cipher is a stream cipher: the  *)
(* key stream depends on key, nonce and position and is added to the clear  *)
(* text.  The tag is a fingerprint of key, nonce and cipher text that       *)
(* changes with any one of them; open_in_place recomputes and compares it.  *)

\* Byte i of the key stream, from the digests of key and nonce.
KeyStream(k, n, i) == (k + 3 * n + 7 * i) % 256

ChaCha(key, nonce, text) ==
    LET k == Sum(key)
        n == Sum(nonce)
    IN  [i \in 1..Len(text) |-> (text[i] + KeyStream(k, n, i)) % 256]

ChaChaInv(key, nonce, text) ==
    LET k == Sum(key)
        n == Sum(nonce)
    IN  [i \in 1..Len(text) |-> (text[i] + 256 - KeyStream(k, n, i)) % 256]

Poly(key, nonce, cipher) ==
    LET k == Sum(key) % 256
        n == Sum(nonce) % 256
        c == Sum(cipher) % 256
    IN  [j \in 1..MAX_TAG_LEN |->
            CASE j = 1 -> k
              [] j = 2 -> n
              [] j = 3 -> c
              [] j = 4 -> Len(cipher) % 256
              [] OTHER -> (k + n + c + j) % 256]

\* aead::seal_in_place(key, nonce, &[], in_out, out_suffix_capacity): the
\* clear text is in_out less its last out_suffix_capacity bytes; the tag
\* is written right after the cipher text.
seal_in_place(key, nonce, in_out, out_suffix_capacity) ==
    IF Len(in_out) < out_suffix_capacity \/ out_suffix_capacity < MAX_TAG_LEN
    THEN Panicked
    ELSE LET in_out_len == Len(in_out) - out_suffix_capacity
             cipher == ChaCha(key, nonce, Slice(in_out, 0, in_out_len))
         IN  Ok(cipher \o Poly(key, nonce, cipher)
                    \o Slice(in_out, in_out_len + MAX_TAG_LEN, Len(in_out)))

\* aead::open_in_place(key, nonce, &[], 0, in_out): Err when in_out is
\* shorter than a tag or the tag does not verify; else the clear text.
open_in_place(key, nonce, in_out) ==
    IF Len(in_out) < MAX_TAG_LEN THEN Panicked
    ELSE LET cipher_len == Len(in_out) - MAX_TAG_LEN
             cipher == Slice(in_out, 0, cipher_len)
             tag == Slice(in_out, cipher_len, Len(in_out))
         IN  IF Poly(key, nonce, cipher) # tag THEN Panicked
             ELSE Ok(ChaChaInv(key, nonce, cipher))

-----------------------------------------------------------------------------
(* encrypt and decrypt: algorithm.rs 488-530 *)

\* The mutant of AeadKey: the second half of the master key is the key.
AeadKeySecondHalf(key) == Slice(key, AEAD_KEY_LEN, KEY_LEN)

\* &master_key[0..32]
AeadKey(key) == Slice(key, 0, AEAD_KEY_LEN)

\* encrypt(clear_text, master_key, buffer) with the nonce the rng drew:
\* the buffer afterwards, or a panic.
encrypt(text, key, buf, nonce) ==
    IF Len(buf) < min_buffer_len(Len(text)) THEN Panicked
    ELSE LET rest == Slice(buf, NONCE_LEN, Len(buf))
             copied == text \o Slice(rest, Len(text), Len(rest))
             input == pad(Slice(copied, 0, padded_len(Len(text))), Len(text))
         IN  IF ~input.ok THEN Panicked
             ELSE LET in_out == input.val
                                 \o Slice(copied, padded_len(Len(text)), Len(copied))
                      sealed == seal_in_place(AeadKey(key), nonce, in_out, MAX_TAG_LEN)
                  IN  IF ~sealed.ok THEN Panicked
                      ELSE Ok(nonce \o sealed.val)

\* The mutant of decrypt: a failed open_in_place is not fatal, the bytes
\* after the nonce are unpadded as they are.
decrypt_unchecked(key, buf, debug) ==
    IF Len(buf) <= NONCE_LEN THEN Panicked
    ELSE LET nonce == Slice(buf, 0, NONCE_LEN)
             in_out == Slice(buf, NONCE_LEN, Len(buf))
             padded == open_in_place(AeadKey(key), nonce, in_out)
         IN  IF ~padded.ok THEN unpad(in_out, debug)
             ELSE unpad(padded.val, debug)

\* decrypt(master_key, buffer): the slice it returns, or a panic.
decrypt(key, buf, debug) ==
    IF Len(buf) <= NONCE_LEN THEN Panicked
    ELSE LET nonce == Slice(buf, 0, NONCE_LEN)
             in_out == Slice(buf, NONCE_LEN, Len(buf))
             padded == open_in_place(AeadKey(key), nonce, in_out)
         IN  IF ~padded.ok THEN Panicked
             ELSE unpad(padded.val, debug)

\* The buffer after decrypt: open_in_place decrypts in place.
decrypt_buffer(key, buf) ==
    IF Len(buf) <= NONCE_LEN THEN buf
    ELSE LET nonce == Slice(buf, 0, NONCE_LEN)
             in_out == Slice(buf, NONCE_LEN, Len(buf))
             padded == open_in_place(AeadKey(key), nonce, in_out)
         IN  IF ~padded.ok THEN buf
             ELSE nonce \o padded.val \o Slice(in_out, Len(padded.val), Len(in_out))

-----------------------------------------------------------------------------
(* The master keys of the model: each half is filled with one byte. *)

KeyBytes == {1, 2}

MasterKey(a, b) == [i \in 1..KEY_LEN |-> IF i <= AEAD_KEY_LEN THEN a ELSE b]

MasterKeys == {MasterKey(a, b) : a \in KeyBytes, b \in KeyBytes}

-----------------------------------------------------------------------------
(* The template engine: algorithm.rs 283-398 *)

SHA256_OUTPUT_LEN == 32

RANDOM_SEED_LEN == 21

U8_MAX == 255

GeneratedTypes ==
    {"GeneratedMaximum", "GeneratedLong", "GeneratedMedium", "GeneratedBasic",
     "GeneratedShort", "GeneratedPIN", "GeneratedName", "GeneratedPhrase"}

SiteTypes == GeneratedTypes \cup {"Stored"}

SiteVariants == {"Password", "Login", "Answer"}

\* The templates of a type, in the order of the source; a template is the
\* sequence of its class characters.  Stored panics.
templates_for_type(ty) ==
    CASE ty = "GeneratedMaximum" -> Ok(<<
            <<"a", "n", "o", "x", "x", "x", "x", "x", "x", "x", "x", "x", "x", "x", "x", "x", "x", "x", "x", "x">>,
            <<"a", "x", "x", "x", "x", "x", "x", "x", "x", "x", "x", "x", "x", "x", "x", "x", "x", "x", "n", "o">>>>)
      [] ty = "GeneratedLong" -> Ok(<<
            <<"C", "v", "c", "v", "n", "o", "C", "v", "c", "v", "C", "v", "c", "v">>,
            <<"C", "v", "c", "v", "C", "v", "c", "v", "n", "o", "C", "v", "c", "v">>,
            <<"C", "v", "c", "v", "C", "v", "c", "v", "C", "v", "c", "v", "n", "o">>,
            <<"C", "v", "c", "c", "n", "o", "C", "v", "c", "v", "C", "v", "c", "v">>,
            <<"C", "v", "c", "c", "C", "v", "c", "v", "n", "o", "C", "v", "c", "v">>,
            <<"C", "v", "c", "c", "C", "v", "c", "v", "C", "v", "c", "v", "n", "o">>,
            <<"C", "v", "c", "v", "n", "o", "C", "v", "c", "c", "C", "v", "c", "v">>,
            <<"C", "v", "c", "v", "C", "v", "c", "c", "n", "o", "C", "v", "c", "v">>,
            <<"C", "v", "c", "v", "C", "v", "c", "c", "C", "v", "c", "v", "n", "o">>,
            <<"C", "v", "c", "v", "n", "o", "C", "v", "c", "v", "C", "v", "c", "c">>,
            <<"C", "v", "c", "v", "C", "v", "c", "v", "n", "o", "C", "v", "c", "c">>,
            <<"C", "v", "c", "v", "C", "v", "c", "v", "C", "v", "c", "c", "n", "o">>,
            <<"C", "v", "c", "c", "n", "o", "C", "v", "c", "c", "C", "v", "c", "v">>,
            <<"C", "v", "c", "c", "C", "v", "c", "c", "n", "o", "C", "v", "c", "v">>,
            <<"C", "v", "c", "c", "C", "v", "c", "c", "C", "v", "c", "v", "n", "o">>,
            <<"C", "v", "c", "v", "n", "o", "C", "v", "c", "c", "C", "v", "c", "c">>,
            <<"C", "v", "c", "v", "C", "v", "c", "c", "n", "o", "C", "v", "c", "c">>,
            <<"C", "v", "c", "v", "C", "v", "c", "c", "C", "v", "c", "c", "n", "o">>,
            <<"C", "v", "c", "c", "n", "o", "C", "v", "c", "v", "C", "v", "c", "c">>,
            <<"C", "v", "c", "c", "C", "v", "c", "v", "n", "o", "C", "v", "c", "c">>,
            <<"C", "v", "c", "c", "C", "v", "c", "v", "C", "v", "c", "c", "n", "o">>>>)
      [] ty = "GeneratedMedium" -> Ok(<<
            <<"C", "v", "c", "n", "o", "C", "v", "c">>,
            <<"C", "v", "c", "C", "v", "c", "n", "o">>>>)
      [] ty = "GeneratedBasic" -> Ok(<<
            <<"a", "a", "a", "n", "a", "a", "a", "n">>,
            <<"a", "a", "n", "n", "a", "a", "a", "n">>,
            <<"a", "a", "a", "n", "n", "a", "a", "a">>>>)
      [] ty = "GeneratedShort" -> Ok(<<
            <<"C", "v", "c", "n">>>>)
      [] ty = "GeneratedPIN" -> Ok(<<
            <<"n", "n", "n", "n">>>>)
      [] ty = "GeneratedName" -> Ok(<<
            <<"c", "v", "c", "c", "v", "c", "v", "c", "v">>>>)
      [] ty = "GeneratedPhrase" -> Ok(<<
            <<"c", "v", "c", "c", " ", "c", "v", "c", " ", "c", "v", "c", "c", "v", "c", "v", " ", "c", "v", "c">>,
            <<"c", "v", "c", " ", "c", "v", "c", "c", "v", "c", "v", "c", "v", " ", "c", "v", "c", "v">>,
            <<"c", "v", " ", "c", "v", "c", "c", "v", " ", "c", "v", "c", " ", "c", "v", "c", "v", "c", "c", "v">>>>)
      [] OTHER -> Panicked


\* The mutant of template_for_type: Stored has the template of the PIN.
template_for_type_stored_as_pin(ty, seed_byte) ==
    LET templates == templates_for_type(IF ty = "Stored" THEN "GeneratedPIN" ELSE ty)
    IN  IF ~templates.ok THEN Panicked
        ELSE LET count == Len(templates.val)
             IN  IF count > U8_MAX \/ count = 0 THEN Panicked
                 ELSE Ok(templates.val[(seed_byte % count) + 1])

\* templates[usize::from(seed_byte % count)]; u8::try_from(..).unwrap()
\* panics above 255 and the remainder panics when count is 0.
template_for_type(ty, seed_byte) ==
    LET templates == templates_for_type(ty)
    IN  IF ~templates.ok THEN Panicked
        ELSE LET count == Len(templates.val)
             IN  IF count > U8_MAX \/ count = 0 THEN Panicked
                 ELSE Ok(templates.val[(seed_byte % count) + 1])

\* The characters of a class, in the order of the source.
characters_in_class(class) ==
    CASE class = "V" -> Ok(<<"A", "E", "I", "O", "U">>)
      [] class = "C" -> Ok(<<"B", "C", "D", "F", "G", "H", "J", "K", "L", "M", "N", "P", "Q", "R", "S", "T", "V", "W", "X", "Y", "Z">>)
      [] class = "v" -> Ok(<<"a", "e", "i", "o", "u">>)
      [] class = "c" -> Ok(<<"b", "c", "d", "f", "g", "h", "j", "k", "l", "m", "n", "p", "q", "r", "s", "t", "v", "w", "x", "y", "z">>)
      [] class = "A" -> Ok(<<"A", "E", "I", "O", "U", "B", "C", "D", "F", "G", "H", "J", "K", "L", "M", "N", "P", "Q", "R", "S", "T", "V", "W", "X", "Y", "Z">>)
      [] class = "a" -> Ok(<<"A", "E", "I", "O", "U", "a", "e", "i", "o", "u", "B", "C", "D", "F", "G", "H", "J", "K", "L", "M", "N", "P", "Q", "R", "S", "T", "V", "W", "X", "Y", "Z", "b", "c", "d", "f", "g", "h", "j", "k", "l", "m", "n", "p", "q", "r", "s", "t", "v", "w", "x", "y", "z">>)
      [] class = "n" -> Ok(<<"0", "1", "2", "3", "4", "5", "6", "7", "8", "9">>)
      [] class = "o" -> Ok(<<"@", "&", "%", "?", ",", "=", "[", "]", "_", ":", "-", "+", "*", "$", "#", "!", "'", "^", "~", ";", "(", ")", "/", ".">>)
      [] class = "x" -> Ok(<<"A", "E", "I", "O", "U", "a", "e", "i", "o", "u", "B", "C", "D", "F", "G", "H", "J", "K", "L", "M", "N", "P", "Q", "R", "S", "T", "V", "W", "X", "Y", "Z", "b", "c", "d", "f", "g", "h", "j", "k", "l", "m", "n", "p", "q", "r", "s", "t", "v", "w", "x", "y", "z", "0", "1", "2", "3", "4", "5", "6", "7", "8", "9", "!", "@", "#", "$", "%", "^", "&", "*", "(", ")">>)
      [] class = " " -> Ok(<<" ">>)
      [] OTHER -> Panicked


\* class_chars.chars().nth(seed_byte % class_chars.len())
character_from_class(class, seed_byte) ==
    LET class_chars == characters_in_class(class)
    IN  IF ~class_chars.ok THEN Panicked
        ELSE LET count == Len(class_chars.val)
             IN  IF count > U8_MAX \/ count = 0 THEN Panicked
                 ELSE Ok(class_chars.val[(seed_byte % count) + 1])

\* The mutant of SeedByteAt: character i is encoded from seed[i].
SeedByteAtSame(s, i) == s[i + 1]

\* seed[i + 1] for the character at position i (both counted from 0)
SeedByteAt(s, i) == s[(i + 1) + 1]

\* The loop of generate_password: the characters from position i on are
\* pushed to the password.
RECURSIVE push_chars(_, _, _, _)
push_chars(template, s, i, pw) ==
    IF i = Len(template) THEN Ok(pw)
    ELSE LET c == character_from_class(template[i + 1], SeedByteAt(s, i))
         IN  IF ~c.ok THEN Panicked
             ELSE push_chars(template, s, i + 1, Append(pw, c.val))

\* The mutant of generate_password: the template must be two shorter than
\* the seed.
generate_password_one_short(ty, s) ==
    IF Len(s) = 0 THEN Panicked
    ELSE LET template == template_for_type(ty, s[1])
         IN  IF ~template.ok THEN Panicked
             ELSE IF Len(template.val) + 1 >= Len(s) THEN Panicked
             ELSE push_chars(template.val, s, 0, <<>>)

\* generate_password(site_type, seed): seed[0] panics on an empty seed.
generate_password(ty, s) ==
    IF Len(s) = 0 THEN Panicked
    ELSE LET template == template_for_type(ty, s[1])
         IN  IF ~template.ok THEN Panicked
             ELSE IF Len(template.val) >= Len(s) THEN Panicked
             ELSE push_chars(template.val, s, 0, <<>>)

-----------------------------------------------------------------------------
(* The site salt and the seed: algorithm.rs 182-189 and 251-281 *)

\* The scope of a variant, as the bytes of the string.
scope_for_variant(variant) ==
    \* "com.lyndir.masterpassword"
    CASE variant = "Password" ->
        <<99, 111, 109, 46, 108, 121, 110, 100, 105, 114, 46, 109, 97, 115, 116, 101, 114, 112, 97, 115, 115, 119, 111, 114, 100>>
    \* "com.lyndir.masterpassword.login"
      [] variant = "Login" ->
        <<99, 111, 109, 46, 108, 121, 110, 100, 105, 114, 46, 109, 97, 115, 116, 101, 114, 112, 97, 115, 115, 119, 111, 114, 100, 46, 108, 111, 103, 105, 110>>
    \* "com.lyndir.masterpassword.answer"
      [] variant = "Answer" ->
        <<99, 111, 109, 46, 108, 121, 110, 100, 105, 114, 46, 109, 97, 115, 116, 101, 114, 112, 97, 115, 115, 119, 111, 114, 100, 46, 97, 110, 115, 119, 101, 114>>

\* write_u32::<BigEndian>(n): the four bytes written
write_u32(n) ==
    <<(n \div 16777216) % 256, (n \div 65536) % 256, (n \div 256) % 256, n % 256>>

\* The mutant of context_fields: an empty context is written as a length 0.
context_fields_always(context) == write_u32(Len(context)) \o context

\* What is written for the context (264-269): nothing when it is empty.
context_fields(context) ==
    IF context # <<>> THEN write_u32(Len(context)) \o context ELSE <<>>

\* site_password_salt when it is handed to hmac::sign (256-270)
site_salt(name, counter, variant, context) ==
    scope_for_variant(variant) \o write_u32(Len(name)) \o name
        \o write_u32(counter) \o context_fields(context)

RECURSIVE WeightedSumTo(_, _)
WeightedSumTo(s, n) == IF n = 0 THEN 0 ELSE (n * s[n] + WeightedSumTo(s, n - 1)) % 65536

\* hmac::sign with SHA256 (272-274): a digest of 32 bytes that is a
\* function of key and message.
hmac_sign(key, msg) ==
    LET k == Sum(key)
        m == WeightedSumTo(msg, Len(msg)) + Len(msg)
    IN  [i \in 1..SHA256_OUTPUT_LEN |-> (k + i * (m + 1) + 31 * i * i) % 256]

\* password_for_site_v3: the password, or a panic.
password_for_site_v3(key, name, ty, counter, variant, context) ==
    generate_password(ty, hmac_sign(key, site_salt(name, counter, variant, context)))

-----------------------------------------------------------------------------
(* The calls of password_for_site_v3 and random_password_for_site. *)

MaxNameLen == 2

MaxContextLen == 2

MaxSeedStart == 21

NameBytes == {97, 0}

RECURSIVE Strings(_, _)
Strings(bytes, n) ==
    IF n = 0 THEN {<<>>}
    ELSE Strings(bytes, n - 1)
            \cup {Append(w, b) : w \in {x \in Strings(bytes, n - 1) : Len(x) = n - 1},
                                 b \in bytes}

SiteNames == Strings(NameBytes, MaxNameLen)

SiteContexts == {Fill(n, 98) : n \in 0..MaxContextLen}

\* 0x01020304 has four different bytes
SiteCounters == {1, 2, 258, 16909060}

\* The seeds the random number generator can fill in.
RandomSeeds ==
    {[i \in 1..RANDOM_SEED_LEN |-> (a + b * (i - 1)) % 256] :
        a \in 0..MaxSeedStart, b \in {1, 37, 101}}

InitDerive ==
    /\ master_key \in {MasterKey(1, 1), MasterKey(2, 1)}
    /\ IdleCrypt
    /\ IdleSite
    /\ IdleOther
    /\ site_type \in SiteTypes
    /\ \/ /\ call = "password_for_site_v3"
          /\ site_name \in SiteNames
          /\ site_counter \in SiteCounters
          /\ site_variant \in SiteVariants
          /\ site_context \in SiteContexts
       \/ /\ call = "random_password_for_site"
          /\ master_key = MasterKey(1, 1)
          /\ site_name = <<>>
          /\ site_counter = 0
          /\ site_variant = "Password"
          /\ site_context = <<>>
    /\ site_password_salt = <<>>
    /\ seed = <<>>
    /\ password = Panicked
    /\ gpc = "init"

PasswordForSite ==
    /\ gpc = "init"
    /\ call = "password_for_site_v3"
    /\ site_password_salt' =
            site_salt(site_name, site_counter, site_variant, site_context)
    /\ seed' = hmac_sign(master_key, site_password_salt')
    /\ password' = generate_password(site_type, seed')
    /\ gpc' = "done"
    /\ UNCHANGED <<call, site_name, site_type, site_counter, site_variant, site_context>>
    /\ UNCHANGED <<master_key, cryptVars, siteVars, otherVars>>

RandomPasswordForSite ==
    /\ gpc = "init"
    /\ call = "random_password_for_site"
    /\ \E s \in RandomSeeds :
        /\ seed' = s
        /\ password' = generate_password(site_type, s)
    /\ gpc' = "done"
    /\ UNCHANGED <<call, site_name, site_type, site_counter, site_variant, site_context,
                   site_password_salt>>
    /\ UNCHANGED <<master_key, cryptVars, siteVars, otherVars>>

NextDerive == PasswordForSite \/ RandomPasswordForSite

SpecDerive == InitDerive /\ [][NextDerive]_vars

-----------------------------------------------------------------------------
(* Claims about the template engine and the site salt. *)

\* C2: for a generated type, the password is built from the template at
\* index seed[0] mod (number of templates): character i is the candidate at
\* index seed[i+1] mod (size of the class of template[i]), so the password
\* has the template's length and every character is of its class.
C2_TemplateApplied ==
    (gpc = "done" /\ site_type \in GeneratedTypes) =>
        LET templates == templates_for_type(site_type).val
            template == templates[(seed[1] % Len(templates)) + 1]
        IN  /\ password.ok
            /\ Len(password.val) = Len(template)
            /\ \A i \in 0..(Len(template) - 1) :
                LET candidates == characters_in_class(template[i + 1]).val
                IN  /\ password.val[i + 1] =
                            candidates[(seed[i + 2] % Len(candidates)) + 1]
                    /\ \E k \in 1..Len(candidates) : password.val[i + 1] = candidates[k]

\* A Long password was built from the last of the 21 templates.
C2_Witness ==
    /\ gpc = "done" /\ site_type = "GeneratedLong"
    /\ seed[1] % 21 = 20
    /\ password.ok /\ Len(password.val) = 14

\* The value of the four bytes after the first `at` bytes, read big-endian.
ReadBigEndian(m, at) ==
    ((m[at + 1] * 256 + m[at + 2]) * 256 + m[at + 3]) * 256 + m[at + 4]

\* C3: the message handed to the HMAC is the scope of the variant, the
\* big-endian length of the name, the name, the big-endian counter and,
\* exactly when the context is not empty, the big-endian length of the
\* context and the context; an empty context adds no byte.
C3_SaltLayout ==
    (gpc = "done" /\ call = "password_for_site_v3") =>
        LET m == site_password_salt
            scope == scope_for_variant(site_variant)
            a == Len(scope)
            b == a + 4 + Len(site_name)
            c == b + 4
        IN  /\ seed = hmac_sign(master_key, m)
            /\ Len(m) >= c
            /\ Slice(m, 0, a) = scope
            /\ ReadBigEndian(m, a) = Len(site_name)
            /\ Slice(m, a + 4, b) = site_name
            /\ ReadBigEndian(m, b) = site_counter
            /\ IF site_context = <<>>
               THEN Len(m) = c
               ELSE /\ Len(m) = c + 4 + Len(site_context)
                    /\ ReadBigEndian(m, c) = Len(site_context)
                    /\ Slice(m, c + 4, Len(m)) = site_context

\* A salt was built for the login variant with a name of two bytes, the
\* counter 0x01020304 and an empty context: it ends with the counter.
C3_Witness ==
    /\ gpc = "done" /\ call = "password_for_site_v3"
    /\ site_variant = "Login" /\ Len(site_name) = 2
    /\ site_counter = 16909060 /\ site_context = <<>>
    /\ Len(site_password_salt) = 31 + 4 + 2 + 4
    /\ Slice(site_password_salt, 37, 41) = <<1, 2, 3, 4>>

C23_GeneratedNeverPanics ==
    (gpc = "done" /\ site_type \in GeneratedTypes) =>
        /\ Len(seed) >= RANDOM_SEED_LEN
        /\ password.ok
        /\ LET templates == templates_for_type(site_type)
           IN  /\ templates.ok
               /\ Len(templates.val) \in 1..U8_MAX
               /\ \A t \in 1..Len(templates.val) :
                    /\ Len(templates.val[t]) <= 20
                    /\ Len(templates.val[t]) < Len(seed)
                    /\ \A i \in 1..Len(templates.val[t]) :
                        LET class == characters_in_class(templates.val[t][i])
                        IN  class.ok /\ Len(class.val) \in 1..U8_MAX

\* A password of 20 characters was generated from a seed of 21 bytes.
C23_Witness ==
    /\ gpc = "done" /\ site_type = "GeneratedMaximum"
    /\ call = "random_password_for_site"
    /\ Len(seed) = RANDOM_SEED_LEN
    /\ password.ok /\ Len(password.val) = Len(seed) - 1

-----------------------------------------------------------------------------
(* The inputs of encrypt and decrypt. *)

MaxClearLen == 21

MaxExtra == 2

MaxAuthLen == 2

\* A clear text of n bytes: bytes of value 100 that end in the given tail.
Text(n, tail) ==
    [i \in 1..n |-> IF i > n - Len(tail) THEN tail[i - (n - Len(tail))] ELSE 100]

\* Tails that look like padding: a zero marker, k bytes of value k, PAD_LEN.
Tails == {<<>>, <<0>>, <<1>>, <<2, 2>>, <<20>>}

ClearTexts(max) ==
    UNION {{Text(n, tail) : tail \in {t \in Tails : Len(t) <= n}} : n \in 0..max}

Nonces == {Fill(NONCE_LEN, 0), Fill(NONCE_LEN, 9)}

\* What the caller's buffer holds before encrypt.
BufferBytes == {0, 2}

\* What a changed byte of the buffer is changed by.
TamperDeltas == {1, 128}

InitCrypt ==
    /\ clear_text \in ClearTexts(MaxClearLen)
    /\ master_key \in MasterKeys
    /\ extra \in -1..MaxExtra
    /\ \E b \in BufferBytes :
        buffer = Fill(min_buffer_len(Len(clear_text)) + extra, b)
    /\ dec_key = master_key
    /\ decrypted = Panicked
    /\ tamper = "none"
    /\ cpc = "init"
    /\ IdleDerive
    /\ IdleSite
    /\ IdleOther

\* main.rs 272: the buffer is vec![0; min_buffer_len(password.len())]
InitAuth ==
    /\ clear_text \in ClearTexts(MaxAuthLen)
    /\ master_key \in MasterKeys
    /\ extra = 0
    /\ buffer = Fill(min_buffer_len(Len(clear_text)), 0)
    /\ dec_key = master_key
    /\ decrypted = Panicked
    /\ tamper = "none"
    /\ cpc = "init"
    /\ IdleDerive
    /\ IdleSite
    /\ IdleOther

Encrypt ==
    /\ cpc = "init"
    /\ \E nonce \in Nonces :
        LET out == encrypt(clear_text, master_key, buffer, nonce)
        IN  IF out.ok
            THEN buffer' = out.val /\ cpc' = "sealed"
            ELSE buffer' = buffer /\ cpc' = "panic"
    /\ UNCHANGED <<clear_text, master_key, extra, dec_key, decrypted, tamper>>
    /\ UNCHANGED <<deriveVars, siteVars, otherVars>>

\* Where byte p of an encrypted buffer lies.
Region(buf, p) ==
    IF p <= NONCE_LEN THEN "nonce"
    ELSE IF p <= Len(buf) - MAX_TAG_LEN THEN "cipher"
    ELSE "tag"

\* One byte of the encrypted buffer is changed before it is decrypted.
Tamper ==
    /\ cpc = "sealed"
    /\ tamper = "none"
    /\ \E p \in 1..Len(buffer), d \in TamperDeltas :
        /\ buffer' = [buffer EXCEPT ![p] = (@ + d) % 256]
        /\ tamper' = Region(buffer, p)
    /\ UNCHANGED <<clear_text, master_key, extra, dec_key, decrypted, cpc>>
    /\ UNCHANGED <<deriveVars, siteVars, otherVars>>

\* The encrypted buffer is cut to a nonce or less before it is decrypted.
Truncate ==
    /\ cpc = "sealed"
    /\ tamper = "none"
    /\ \E len \in 0..NONCE_LEN : buffer' = Slice(buffer, 0, len)
    /\ tamper' = "short"
    /\ UNCHANGED <<clear_text, master_key, extra, dec_key, decrypted, cpc>>
    /\ UNCHANGED <<deriveVars, siteVars, otherVars>>

Decrypt ==
    /\ cpc = "sealed"
    /\ \E key \in MasterKeys, debug \in BOOLEAN :
        /\ dec_key' = key
        /\ decrypted' = decrypt(key, buffer, debug)
        /\ buffer' = decrypt_buffer(key, buffer)
    /\ cpc' = "done"
    /\ UNCHANGED <<clear_text, master_key, extra, tamper>>
    /\ UNCHANGED <<deriveVars, siteVars, otherVars>>

NextCrypt == Encrypt \/ Decrypt

SpecCrypt == InitCrypt /\ [][NextCrypt]_vars

NextAuth == Encrypt \/ Tamper \/ Truncate \/ Decrypt

SpecAuth == InitAuth /\ [][NextAuth]_vars

-----------------------------------------------------------------------------
(* Claims about encrypt and decrypt. *)

Untouched == cpc = "done" /\ tamper = "none"

SameAeadKey == Slice(dec_key, 0, 32) = Slice(master_key, 0, 32)

\* C1: with a buffer of exactly min_buffer_len(n) bytes, decrypt under the
\* key of encrypt returns exactly the clear text, whatever the nonce and
\* whatever bytes the clear text ends in.
C1_RoundTrip ==
    (Untouched /\ dec_key = master_key /\ extra = 0)
        => decrypted = Ok(clear_text)

\* A clear text of PAD_LEN bytes that ends in a zero byte came back.
C1_Witness ==
    /\ Untouched /\ dec_key = master_key /\ extra = 0
    /\ Len(clear_text) = PAD_LEN /\ clear_text[PAD_LEN] = 0
    /\ decrypted = Ok(clear_text)

\* C4: every clear text shorter than PAD_LEN, encrypted in a minimally
\* sized buffer, gives a buffer of 12 + 20 + 16 = 48 bytes.
C4_LengthHiding ==
    (cpc \in {"sealed", "done"} /\ extra = 0 /\ Len(clear_text) < PAD_LEN)
        => Len(buffer) = 48

\* The empty clear text was encrypted into 48 bytes.
C4_Witness ==
    /\ cpc = "sealed" /\ extra = 0 /\ Len(clear_text) = 0
    /\ Len(buffer) = 48

\* C5: the round trip holds for every buffer of at least
\* min_buffer_len(n) bytes, whatever the extra bytes held.
C5_RoundTripAnyBuffer ==
    (Untouched /\ dec_key = master_key /\ extra >= 0)
        => decrypted = Ok(clear_text)

\* C6: decrypt panics when a byte of nonce, cipher text or tag was changed,
\* when the key differs in its first 32 bytes, or when the buffer is not
\* longer than the nonce.
C6_AuthFailureFatal ==
    (cpc = "done" /\ (tamper # "none" \/ ~SameAeadKey)) => ~decrypted.ok

\* decrypt panicked on a buffer with a changed byte of cipher text, under
\* the key of encrypt.
C6_Witness ==
    /\ cpc = "done" /\ tamper = "cipher" /\ dec_key = master_key
    /\ ~decrypted.ok

\* C7: a buffer encrypted under one master key decrypts to the clear text
\* under any master key with the same first 32 bytes.
C7_SecondHalfUnused ==
    (Untouched /\ extra = 0 /\ SameAeadKey) => decrypted = Ok(clear_text)

\* decrypt returned the clear text under a key that differs from the key of
\* encrypt in its second half.
C7_Witness ==
    /\ Untouched /\ extra = 0 /\ SameAeadKey /\ dec_key # master_key
    /\ Len(clear_text) > 0
    /\ decrypted = Ok(clear_text)

-----------------------------------------------------------------------------
(* data_encoding::base64 and std::str::from_utf8, as main uses them        *)
(* (main.rs 277 and 340-345).  A text is the sequence of its characters.   *)

Base64Alphabet ==
  <<
     "A", "B", "C", "D", "E", "F", "G", "H", "I", "J", "K", "L", "M", "N",
     "O", "P", "Q", "R", "S", "T", "U", "V", "W", "X", "Y", "Z", "a", "b",
     "c", "d", "e", "f", "g", "h", "i", "j", "k", "l", "m", "n", "o", "p",
     "q", "r", "s", "t", "u", "v", "w", "x", "y", "z", "0", "1", "2", "3",
     "4", "5", "6", "7", "8", "9", "+", "/"
  >>

\* base64::encode: three bytes give four characters, padded with '='.
RECURSIVE base64_encode(_)
base64_encode(bytes) ==
    IF Len(bytes) = 0 THEN <<>>
    ELSE IF Len(bytes) = 1
    THEN <<Base64Alphabet[(bytes[1] \div 4) + 1],
           Base64Alphabet[((bytes[1] % 4) * 16) + 1], "=", "=">>
    ELSE IF Len(bytes) = 2
    THEN <<Base64Alphabet[(bytes[1] \div 4) + 1],
           Base64Alphabet[((bytes[1] % 4) * 16 + bytes[2] \div 16) + 1],
           Base64Alphabet[((bytes[2] % 16) * 4) + 1], "=">>
    ELSE <<Base64Alphabet[(bytes[1] \div 4) + 1],
           Base64Alphabet[((bytes[1] % 4) * 16 + bytes[2] \div 16) + 1],
           Base64Alphabet[((bytes[2] % 16) * 4 + bytes[3] \div 64) + 1],
           Base64Alphabet[(bytes[3] % 64) + 1]>>
         \o base64_encode(SubSeq(bytes, 4, Len(bytes)))

\* The value of a character of the alphabet, -1 for any other character.
Sextet(c) ==
    IF \E i \in 1..64 : Base64Alphabet[i] = c
    THEN (CHOOSE i \in 1..64 : Base64Alphabet[i] = c) - 1
    ELSE -1

\* base64::decode: an error for a length that is no multiple of four, a
\* character out of the alphabet, misplaced padding or non-zero trailing
\* bits.
RECURSIVE base64_decode(_)
base64_decode(text) ==
    IF Len(text) = 0 THEN Ok(<<>>)
    ELSE IF Len(text) < 4 THEN Err("decode")
    ELSE LET q1 == Sextet(text[1])
             q2 == Sextet(text[2])
             q3 == Sextet(text[3])
             q4 == Sextet(text[4])
             last == Len(text) = 4
         IN  IF q1 < 0 \/ q2 < 0 THEN Err("decode")
             ELSE IF text[3] = "="
             THEN IF last /\ text[4] = "=" /\ q2 % 16 = 0
                  THEN Ok(<<q1 * 4 + q2 \div 16>>)
                  ELSE Err("decode")
             ELSE IF q3 < 0 THEN Err("decode")
             ELSE IF text[4] = "="
             THEN IF last /\ q3 % 4 = 0
                  THEN Ok(<<q1 * 4 + q2 \div 16, (q2 % 16) * 16 + q3 \div 4>>)
                  ELSE Err("decode")
             ELSE IF q4 < 0 THEN Err("decode")
             ELSE LET rest == base64_decode(SubSeq(text, 5, Len(text)))
                  IN  IF ~rest.ok THEN Err("decode")
                      ELSE Ok(<<q1 * 4 + q2 \div 16, (q2 % 16) * 16 + q3 \div 4,
                                (q3 % 4) * 64 + q4>> \o rest.val)

\* Whether bytes i.. of s start with n continuation bytes, the first of
\* them in lo..hi.
Continues(s, i, n, lo, hi) ==
    /\ i + n - 1 <= Len(s)
    /\ s[i] >= lo /\ s[i] <= hi
    /\ \A k \in (i + 1)..(i + n - 1) : s[k] >= 128 /\ s[k] <= 191

\* std::str::from_utf8(s).is_ok(), from byte i on
RECURSIVE valid_utf8_from(_, _)
valid_utf8_from(s, i) ==
    IF i > Len(s) THEN TRUE
    ELSE LET b == s[i]
         IN  IF b < 128 THEN valid_utf8_from(s, i + 1)
             ELSE IF b >= 194 /\ b <= 223
             THEN Continues(s, i + 1, 1, 128, 191) /\ valid_utf8_from(s, i + 2)
             ELSE IF b = 224
             THEN Continues(s, i + 1, 2, 160, 191) /\ valid_utf8_from(s, i + 3)
             ELSE IF b = 237
             THEN Continues(s, i + 1, 2, 128, 159) /\ valid_utf8_from(s, i + 3)
             ELSE IF b >= 225 /\ b <= 239
             THEN Continues(s, i + 1, 2, 128, 191) /\ valid_utf8_from(s, i + 3)
             ELSE IF b = 240
             THEN Continues(s, i + 1, 3, 144, 191) /\ valid_utf8_from(s, i + 4)
             ELSE IF b = 244
             THEN Continues(s, i + 1, 3, 128, 143) /\ valid_utf8_from(s, i + 4)
             ELSE IF b >= 241 /\ b <= 243
             THEN Continues(s, i + 1, 3, 128, 191) /\ valid_utf8_from(s, i + 4)
             ELSE FALSE

valid_utf8(s) == valid_utf8_from(s, 1)

-----------------------------------------------------------------------------
(* Site::from_config: config.rs 141-188 *)

\* The mutant of default_type: every variant defaults to long.
default_type_long(variant, encrypted) ==
    IF encrypted = None THEN "GeneratedLong" ELSE "Stored"

\* The default of an absent type (161-169)
default_type(variant, encrypted) ==
    IF encrypted = None
    THEN CASE variant = "Password" -> "GeneratedLong"
           [] variant = "Login" -> "GeneratedName"
           [] variant = "Answer" -> "GeneratedPhrase"
    ELSE "Stored"

\* The mutant of from_config: a stored password with a generated type is
\* not rejected.
from_config_unchecked(config) ==
    LET variant == unwrap_or(config.variant, "Password")
        encrypted == config.encrypted
    IN  Ok([name |-> config.name,
            type_ |-> unwrap_or(config.type_, default_type(variant, encrypted)),
            counter |-> unwrap_or(config.counter, 1),
            variant |-> variant,
            context |-> unwrap_or(config.context, <<>>),
            encrypted |-> encrypted])

\* Site::from_config(config): Ok(Site) or Err(ErrorKind)
from_config(config) ==
    LET variant == unwrap_or(config.variant, "Password")
        encrypted == config.encrypted
        type_ == unwrap_or(config.type_, default_type(variant, encrypted))
    IN  IF encrypted # None /\ type_ # "Stored"
        THEN Err("ConflictingStoredGenerated")
        ELSE Ok([name |-> config.name,
                 type_ |-> type_,
                 counter |-> unwrap_or(config.counter, 1),
                 variant |-> variant,
                 context |-> unwrap_or(config.context, <<>>),
                 encrypted |-> encrypted])

\* The message of a config::Error (config.rs 37-49)
error_message(kind) ==
    CASE kind = "ConflictingFullName" -> "can only merge configs for the same site"
      [] kind = "ConflictingStoredPasswords" ->
            "cannot merge two encrypted passwords for the same site"
      [] kind = "ConflictingStoredGenerated" ->
            "got a stored password for a supposedly generated password"

-----------------------------------------------------------------------------
(* The loop of main that generates or decrypts: main.rs 321-361 *)

\* What an iteration of the loop does: it prints a password, exits with a
\* message, skips the site or panics.
Exits(message) == [kind |-> "exit", text |-> message]

Prints(pw) == [kind |-> "print", text |-> pw]

Skips == [kind |-> "skip", text |-> <<>>]

Panics == [kind |-> "panic", text |-> <<>>]

\* The mutant of resolve_site: a stored site without an encrypted field is
\* resolved like a generated one.
resolve_site_no_exit(s, key, param_name, debug) ==
    IF param_name # None /\ param_name[1] # s.name THEN Skips
    ELSE IF s.type_ = "Stored" /\ s.encrypted # None
    THEN LET decoded == base64_decode(s.encrypted[1])
         IN  IF ~decoded.ok THEN Exits("could not decode 'encrypted' field")
             ELSE LET clear == decrypt(key, decoded.val, debug)
                  IN  IF ~clear.ok THEN Panics
                      ELSE IF ~valid_utf8(clear.val)
                      THEN Exits("could not decrypt stored password")
                      ELSE Prints(clear.val)
    ELSE LET pw == password_for_site_v3(key, s.name, s.type_, s.counter,
                                        s.variant, s.context)
         IN  IF ~pw.ok THEN Prints(<<>>) ELSE Prints(pw.val)

\* The body of the loop after Site::from_config (326-360), for the site s.
resolve_site(s, key, param_name, debug) ==
    IF param_name # None /\ param_name[1] # s.name THEN Skips
    ELSE IF s.type_ = "Stored"
    THEN IF s.encrypted = None
         THEN Exits("found stored password without 'encrypted' field")
         ELSE LET decoded == base64_decode(s.encrypted[1])
              IN  IF ~decoded.ok THEN Exits("could not decode 'encrypted' field")
                  ELSE LET clear == decrypt(key, decoded.val, debug)
                       IN  IF ~clear.ok THEN Panics
                           ELSE IF ~valid_utf8(clear.val)
                           THEN Exits("could not decrypt stored password")
                           ELSE Prints(clear.val)
    ELSE LET pw == password_for_site_v3(key, s.name, s.type_, s.counter,
                                        s.variant, s.context)
         IN  IF ~pw.ok THEN Panics ELSE Prints(pw.val)

-----------------------------------------------------------------------------
(* The site configs of the model. *)

MaxCounter == 2

\* The password "pw" and a text that is no UTF-8
StoredTexts == {<<112, 119>>, <<255>>}

\* The encrypted fields of a config: what main stores for a password under
\* the master key MasterKey(1, 1) (main.rs 271-278), a text that is no
\* Base64 and the Base64 of three bytes.
EncryptedFields ==
    {base64_encode(encrypt(text, MasterKey(1, 1),
                           Fill(min_buffer_len(Len(text)), 0),
                           Fill(NONCE_LEN, 9)).val) : text \in StoredTexts}
        \cup {<<"!">>, base64_encode(<<1, 2, 3>>)}

Options(S) == {None} \cup {Some(v) : v \in S}

ConfigNames == {<<97>>, <<98>>}

SiteConfigs ==
    [name : ConfigNames,
     type_ : Options(SiteTypes),
     counter : Options(1..MaxCounter),
     variant : Options(SiteVariants),
     context : Options({<<>>, <<99>>}),
     encrypted : Options(EncryptedFields)]

InitSite ==
    /\ master_key \in {MasterKey(1, 1), MasterKey(2, 1)}
    /\ IdleCrypt
    /\ IdleDerive
    /\ IdleOther
    /\ site_config \in SiteConfigs
    /\ param_site_name \in Options({<<97>>})
    /\ site = Panicked
    /\ outcome = [kind |-> "none", text |-> <<>>]
    /\ rpc = "init"

\* main.rs 323: Site::from_config(site_config).unwrap_or_else(|e| exit(..))
FromConfig ==
    /\ rpc = "init"
    /\ site' = from_config(site_config)
    /\ IF site'.ok
       THEN rpc' = "site" /\ outcome' = outcome
       ELSE rpc' = "done" /\ outcome' = Exits(error_message(site'.val))
    /\ UNCHANGED <<site_config, param_site_name>>
    /\ UNCHANGED <<master_key, cryptVars, deriveVars, otherVars>>

\* main.rs 326-360: the rest of the iteration
ResolveSite ==
    /\ rpc = "site"
    /\ \E debug \in BOOLEAN :
        outcome' = resolve_site(site.val, master_key, param_site_name, debug)
    /\ rpc' = "done"
    /\ UNCHANGED <<site_config, param_site_name, site>>
    /\ UNCHANGED <<master_key, cryptVars, deriveVars, otherVars>>

NextSite == FromConfig \/ ResolveSite

SpecSite == InitSite /\ [][NextSite]_vars

-----------------------------------------------------------------------------
(* Claims about Site::from_config. *)

\* C8: a Site with an encrypted credential has the type Stored, and a
\* config with an encrypted field and an explicit generated type gives
\* ConflictingStoredGenerated and no Site.
C8_EncryptedIsStored ==
    rpc # "init" =>
        /\ (site.ok /\ site.val.encrypted # None) => site.val.type_ = "Stored"
        /\ (/\ site_config.encrypted # None
            /\ site_config.type_ # None
            /\ site_config.type_[1] \in GeneratedTypes)
                => (~site.ok /\ site.val = "ConflictingStoredGenerated")

\* A config with an encrypted field and the type long was rejected.
C8_Witness ==
    /\ rpc = "done"
    /\ site_config.encrypted # None
    /\ site_config.type_ = Some("GeneratedLong")
    /\ ~site.ok
    /\ outcome.kind = "exit"

\* C9, as claimed: every Site that from_config returns with the type Stored
\* has an encrypted credential.
C9_StoredHasEncrypted ==
    (rpc # "init" /\ site.ok /\ site.val.type_ = "Stored")
        => site.val.encrypted # None

\* C9, amended: from_config returns a Site of type Stored without a
\* credential for a config of type Stored without an encrypted field; main
\* then exits for that site (unless it skips it) and prints no password, so
\* a password is printed for a Stored site only when its credential is
\* present.
C9_StoredWithoutEncryptedExits ==
    /\ (/\ rpc # "init"
        /\ site_config.type_ = Some("Stored")
        /\ site_config.encrypted = None)
            => (site.ok /\ site.val.type_ = "Stored" /\ site.val.encrypted = None)
    /\ (/\ rpc = "done" /\ site.ok
        /\ site.val.type_ = "Stored" /\ site.val.encrypted = None
        /\ outcome.kind # "skip")
            => (/\ outcome.kind = "exit"
                /\ outcome.text = "found stored password without 'encrypted' field")
    /\ (rpc = "done" /\ site.ok /\ outcome.kind = "print" /\ site.val.type_ = "Stored")
            => site.val.encrypted # None

\* main exited for a Site of type Stored without credential.
C9_Witness ==
    /\ rpc = "done" /\ site.ok
    /\ site.val.type_ = "Stored" /\ site.val.encrypted = None
    /\ outcome.kind = "exit"

\* C10: from_config keeps every present field and fills the others: the
\* counter with 1, the variant with Password, the context with the empty
\* string, and the type with Long, Name or Phrase by variant when there is
\* no encrypted credential and with Stored when there is one.
C10_Defaults ==
    rpc # "init" =>
        /\ site_config.type_ = None => site.ok
        /\ site.ok =>
            LET c == site_config
                s == site.val
            IN  /\ s.name = c.name
                /\ s.encrypted = c.encrypted
                /\ s.counter = IF c.counter = None THEN 1 ELSE c.counter[1]
                /\ s.variant = IF c.variant = None THEN "Password" ELSE c.variant[1]
                /\ s.context = IF c.context = None THEN <<>> ELSE c.context[1]
                /\ c.type_ # None => s.type_ = c.type_[1]
                /\ (c.type_ = None /\ c.encrypted # None) => s.type_ = "Stored"
                /\ (c.type_ = None /\ c.encrypted = None) =>
                    /\ s.variant = "Password" => s.type_ = "GeneratedLong"
                    /\ s.variant = "Login" => s.type_ = "GeneratedName"
                    /\ s.variant = "Answer" => s.type_ = "GeneratedPhrase"

\* A config with nothing but a name and the variant answer became a Site
\* of type phrase with the counter 1 and an empty context.
C10_Witness ==
    /\ rpc = "site"
    /\ site_config.type_ = None /\ site_config.counter = None
    /\ site_config.context = None /\ site_config.encrypted = None
    /\ site_config.variant = Some("Answer")
    /\ site.val.type_ = "GeneratedPhrase" /\ site.val.counter = 1
    /\ site.val.context = <<>>

-----------------------------------------------------------------------------
(* SiteVariant and SiteType as strings: algorithm.rs 42-155 *)

\* SiteVariant::from_str(s)
variant_from_str(s) ==
    CASE s \in {"p", "password"} -> Some("Password")
      [] s \in {"l", "login"} -> Some("Login")
      [] s \in {"a", "answer"} -> Some("Answer")
      [] OTHER -> None

\* The string that Serialize for SiteVariant hands to serialize_str
variant_serialize(v) ==
    CASE v = "Password" -> "password"
      [] v = "Login" -> "login"
      [] v = "Answer" -> "answer"

\* The mutant of type_from_str: "stored" is not decoded.
type_from_str_no_stored(s) ==
    CASE s \in {"x", "max", "maximum"} -> Some("GeneratedMaximum")
      [] s \in {"l", "long"} -> Some("GeneratedLong")
      [] s \in {"m", "med", "medium"} -> Some("GeneratedMedium")
      [] s \in {"b", "basic"} -> Some("GeneratedBasic")
      [] s \in {"s", "short"} -> Some("GeneratedShort")
      [] s \in {"i", "pin"} -> Some("GeneratedPIN")
      [] s \in {"n", "name"} -> Some("GeneratedName")
      [] s \in {"p", "phrase"} -> Some("GeneratedPhrase")
      [] OTHER -> None

\* SiteType::from_str(s)
type_from_str(s) ==
    CASE s \in {"x", "max", "maximum"} -> Some("GeneratedMaximum")
      [] s \in {"l", "long"} -> Some("GeneratedLong")
      [] s \in {"m", "med", "medium"} -> Some("GeneratedMedium")
      [] s \in {"b", "basic"} -> Some("GeneratedBasic")
      [] s \in {"s", "short"} -> Some("GeneratedShort")
      [] s \in {"i", "pin"} -> Some("GeneratedPIN")
      [] s \in {"n", "name"} -> Some("GeneratedName")
      [] s \in {"p", "phrase"} -> Some("GeneratedPhrase")
      [] s = "stored" -> Some("Stored")
      [] OTHER -> None

\* The string that Serialize for SiteType hands to serialize_str
type_serialize(t) ==
    CASE t = "GeneratedMaximum" -> "maximum"
      [] t = "GeneratedLong" -> "long"
      [] t = "GeneratedMedium" -> "medium"
      [] t = "GeneratedBasic" -> "basic"
      [] t = "GeneratedShort" -> "short"
      [] t = "GeneratedPIN" -> "pin"
      [] t = "GeneratedName" -> "name"
      [] t = "GeneratedPhrase" -> "phrase"
      [] t = "Stored" -> "stored"

\* from_str and the serializer of the enum that `codec` names
from_str(enum, s) ==
    IF enum = "SiteVariant" THEN variant_from_str(s) ELSE type_from_str(s)

serialize(enum, v) ==
    IF enum = "SiteVariant" THEN variant_serialize(v) ELSE type_serialize(v)

\* The strings handed to from_str: every string the two enums decode, and
\* strings that differ from one of them in case, by a prefix or suffix, by
\* a space, or that named a value in older revisions.
CodecTexts ==
    {"p", "password", "l", "login", "a", "answer",
     "x", "max", "maximum", "long", "m", "med", "medium", "b", "basic",
     "s", "short", "i", "pin", "n", "name", "phrase", "stored",
     "", " ", "P", "Password", "PASSWORD", "pass", "passwordx", "password ",
     "logi", "ans", "maxi", "Maximum", "lon", "mediu", "shor", "PIN", "pi",
     "nam", "phras", "store", "Stored", "stored ", "personal", "device",
     "GeneratedLong", "generated", "0", "1"}

CodecValues(enum) == IF enum = "SiteVariant" THEN SiteVariants ELSE SiteTypes

InitCodec ==
    /\ IdleBesidesCodec
    /\ codec \in {"SiteVariant", "SiteType"}
    /\ codec_text \in CodecTexts
    /\ codec_value \in CodecValues(codec)
    /\ codec_decoded = None
    /\ codec_serialized = ""
    /\ codec_redecoded = None
    /\ kpc = "init"

\* from_str(codec_text)
FromStr ==
    /\ kpc = "init"
    /\ codec_decoded' = from_str(codec, codec_text)
    /\ kpc' = "decoded"
    /\ UNCHANGED <<codec, codec_text, codec_value, codec_serialized, codec_redecoded>>
    /\ UNCHANGED besidesCodec

\* codec_value.serialize(serializer)
Serialize ==
    /\ kpc = "decoded"
    /\ codec_serialized' = serialize(codec, codec_value)
    /\ kpc' = "serialized"
    /\ UNCHANGED <<codec, codec_text, codec_value, codec_decoded, codec_redecoded>>
    /\ UNCHANGED besidesCodec

\* Deserialize: visit_str calls from_str on the serialized string
Deserialize ==
    /\ kpc = "serialized"
    /\ codec_redecoded' = from_str(codec, codec_serialized)
    /\ kpc' = "done"
    /\ UNCHANGED <<codec, codec_text, codec_value, codec_decoded, codec_serialized>>
    /\ UNCHANGED besidesCodec

NextCodec == FromStr \/ Serialize \/ Deserialize

SpecCodec == InitCodec /\ [][NextCodec]_vars

-----------------------------------------------------------------------------
(* Claims about the string codecs. *)

\* The aliases of the values of the two enums, as the interface lists them.
VariantAliases ==
    [Password |-> {"p", "password"},
     Login |-> {"l", "login"},
     Answer |-> {"a", "answer"}]

TypeAliases ==
    [GeneratedMaximum |-> {"x", "max", "maximum"},
     GeneratedLong |-> {"l", "long"},
     GeneratedMedium |-> {"m", "med", "medium"},
     GeneratedBasic |-> {"b", "basic"},
     GeneratedShort |-> {"s", "short"},
     GeneratedPIN |-> {"i", "pin"},
     GeneratedName |-> {"n", "name"},
     GeneratedPhrase |-> {"p", "phrase"},
     Stored |-> {"stored"}]

Aliases(enum) == IF enum = "SiteVariant" THEN VariantAliases ELSE TypeAliases

\* The canonical long name of a value: the longest of its aliases.
LongName(enum, v) ==
    CHOOSE a \in Aliases(enum)[v] : \A b \in Aliases(enum)[v] : Len(a) >= Len(b)

\* C11: from_str returns the value of which the string is an alias and
\* None for every string that is no alias (no string is an alias of two
\* values of one enum); the serializer emits the long name of the value;
\* and from_str of the serialized name is the value, Stored included.
C11_Codecs ==
    /\ \A v, w \in CodecValues(codec) :
            v # w => Aliases(codec)[v] \cap Aliases(codec)[w] = {}
    /\ kpc # "init" =>
            /\ \A v \in CodecValues(codec) :
                    codec_text \in Aliases(codec)[v] <=> codec_decoded = Some(v)
            /\ (\A v \in CodecValues(codec) : codec_text \notin Aliases(codec)[v])
                    <=> codec_decoded = None
    /\ kpc \in {"serialized", "done"} => codec_serialized = LongName(codec, codec_value)
    /\ kpc = "done" => codec_redecoded = Some(codec_value)

\* "p" was decoded as the type phrase, "stored" was emitted for Stored and
\* decoded to Stored again.
C11_Witness ==
    /\ kpc = "done" /\ codec = "SiteType"
    /\ codec_text = "p" /\ codec_decoded = Some("GeneratedPhrase")
    /\ codec_value = "Stored" /\ codec_serialized = "stored"
    /\ codec_redecoded = Some("Stored")

-----------------------------------------------------------------------------
(* identicon: algorithm.rs 406-434.  A glyph is its Unicode code point and *)
(* a String is the sequence of its glyphs.                                  *)

left_arm ==
    <<9556, 9562, 9584, 9552>>

right_arm ==
    <<9559, 9565, 9583, 9552>>

body ==
    <<9608, 9617, 9618, 9619, 9786, 9787>>

accessory ==
    <<9672, 9678, 9680, 9681, 9682, 9683, 9728, 9729, 9730, 9731, 9732,
      9733, 9734, 9742, 9743, 9096, 8962, 9752, 9762, 9763, 9749, 8986,
      8987, 9200, 9889, 9924, 9925, 9748, 9812, 9813, 9814, 9815, 9816,
      9817, 9818, 9819, 9820, 9821, 9822, 9823, 9832, 9833, 9834, 9835,
      9872, 9873, 9876, 9878, 9881, 9888, 8984, 9166, 9988, 9990, 9992,
      9993, 9996>>

\* get_part(set, seed): u8::try_from(set.len()).unwrap() panics above 255
\* and the remainder panics for an empty set.
get_part(set, seed_byte) ==
    IF Len(set) > U8_MAX \/ Len(set) = 0 THEN Panicked
    ELSE Ok(set[(seed_byte % Len(set)) + 1])

\* The mutant of identicon: both arms are pushed before the body.
identicon_arms_first(name, pw) ==
    LET digest == hmac_sign(pw, name)
        l == get_part(left_arm, digest[1])
        b == get_part(body, digest[2])
        r == get_part(right_arm, digest[3])
        a == get_part(accessory, digest[4])
    IN  IF ~(l.ok /\ b.ok /\ r.ok /\ a.ok) THEN Panicked
        ELSE Ok(<<l.val, r.val, b.val, a.val>>)

\* identicon(full_name, master_password): the master password is the key
\* of the HMAC and the full name its message; identicon_seed[0..3] choose
\* the parts, which are pushed as left arm, body, right arm, accessory.
identicon(name, pw) ==
    LET digest == hmac_sign(pw, name)
        l == get_part(left_arm, digest[1])
        b == get_part(body, digest[2])
        r == get_part(right_arm, digest[3])
        a == get_part(accessory, digest[4])
    IN  IF ~(l.ok /\ b.ok /\ r.ok /\ a.ok) THEN Panicked
        ELSE Ok(<<l.val, b.val, r.val, a.val>>)

MaxFullNameLen == 3

\* 'J', ' ' and the first byte of a two byte character
FullNameBytes == {74, 32, 195}

FullNames == Strings(FullNameBytes, MaxFullNameLen)

\* "", "p", "pw" and "pw1"
MasterPasswords == {<<>>, <<112>>, <<112, 119>>, <<112, 119, 49>>}

InitIdenticon ==
    /\ IdleBesidesIcon
    /\ full_name \in FullNames
    /\ master_password \in MasterPasswords
    /\ identicon_seed = <<>>
    /\ icon = Panicked
    /\ ipc = "init"

Identicon ==
    /\ ipc = "init"
    /\ identicon_seed' = hmac_sign(master_password, full_name)
    /\ icon' = identicon(full_name, master_password)
    /\ ipc' = "done"
    /\ UNCHANGED <<full_name, master_password>>
    /\ UNCHANGED besidesIcon

NextIdenticon == Identicon

SpecIdenticon == InitIdenticon /\ [][NextIdenticon]_vars

-----------------------------------------------------------------------------
(* Claims about identicon. *)

\* The glyph at index seed_byte mod count of a set, counted from 0.
GlyphAt(set, seed_byte, count) == set[(seed_byte % count) + 1]

\* C12, as claimed: identicon returns four glyphs, left arm, body, right
\* arm, accessory, glyph k at index seed[k] mod the size of its set; the
\* sets have 4, 6, 4 and 55 elements and the accessory is at index
\* seed[3] mod 55.
C12_Accessory55 ==
    ipc = "done" =>
        /\ identicon_seed = hmac_sign(master_password, full_name)
        /\ icon.ok /\ Len(icon.val) = 4
        /\ Len(left_arm) = 4 /\ Len(body) = 6 /\ Len(right_arm) = 4
        /\ Len(accessory) = 55
        /\ icon.val[1] = GlyphAt(left_arm, identicon_seed[1], 4)
        /\ icon.val[2] = GlyphAt(body, identicon_seed[2], 6)
        /\ icon.val[3] = GlyphAt(right_arm, identicon_seed[3], 4)
        /\ icon.val[4] = GlyphAt(accessory, identicon_seed[4], 55)

\* C12, amended: the same with an accessory set of 57 elements and the
\* accessory at index seed[3] mod 57.
C12_Accessory57 ==
    ipc = "done" =>
        /\ identicon_seed = hmac_sign(master_password, full_name)
        /\ icon.ok /\ Len(icon.val) = 4
        /\ Len(left_arm) = 4 /\ Len(body) = 6 /\ Len(right_arm) = 4
        /\ Len(accessory) = 57
        /\ icon.val[1] = GlyphAt(left_arm, identicon_seed[1], 4)
        /\ icon.val[2] = GlyphAt(body, identicon_seed[2], 6)
        /\ icon.val[3] = GlyphAt(right_arm, identicon_seed[3], 4)
        /\ icon.val[4] = GlyphAt(accessory, identicon_seed[4], 57)

\* An identicon was built whose accessory is one of the last two of the
\* set and whose body and right arm are different glyphs.
C12_Witness ==
    /\ ipc = "done" /\ icon.ok
    /\ identicon_seed[4] % 57 >= 55
    /\ icon.val[4] = accessory[(identicon_seed[4] % 57) + 1]
    /\ icon.val[2] = body[(identicon_seed[2] % 6) + 1]

-----------------------------------------------------------------------------
(* ClearOnDrop: clear_on_drop.rs 67-149.  The container is a [u8; 64], a   *)
(* Vec<u8> or a String; mem is the memory of the array or of the heap      *)
(* allocation of the Vec (of the String's Vec), len the length.  Memory    *)
(* that is given back to the allocator keeps its bytes.                     *)

\* The byte a secret is made of: 'h', as in b"hello" of the tests
SecretByte == 104

\* UnsafeAsMut::as_mut(container): the positions of mem in the slice.  The
\* array is the slice; the slice of a Vec or a String is its len elements.
as_mut(c) == 1..c.len

\* ClearOnDrop::new(container) for [b; 64], vec![b; n] with the capacity
\* cap (Vec::with_capacity(cap) filled to n) and the String likewise.
new_clear_on_drop(kind, n, cap, b) ==
    [kind |-> kind, mem |-> [i \in 1..cap |-> IF i <= n THEN b ELSE 0], len |-> n]

\* What a Vec of capacity cap grows to for `required` elements (RawVec:
\* the double of the capacity, or what is required when that is more).
grow_to(cap, required) == Max(2 * cap, required)

\* The container with room for `required` elements: as it is when the
\* capacity suffices, else reallocated, either in place or to a new
\* allocation that the len elements are copied to.
reserved(c, required) ==
    IF required <= Len(c.mem) THEN c
    ELSE [c EXCEPT !.mem = [i \in 1..grow_to(Len(c.mem), required) |->
                                IF i <= c.len THEN c.mem[i] ELSE 0]]

\* Vec::push(b), String::push(b) through deref_mut
push(c, b) ==
    LET r == reserved(c, c.len + 1)
    IN  [r EXCEPT !.mem[c.len + 1] = b, !.len = c.len + 1]

\* Vec::truncate(n), String::truncate(n) through deref_mut: the length is
\* set, the elements behind it stay in the allocation.
truncate(c, n) == IF n < c.len THEN [c EXCEPT !.len = n] ELSE c

\* Vec::resize(n, b) through deref_mut (main.rs 341)
resize(c, n, b) ==
    IF n <= c.len THEN truncate(c, n)
    ELSE LET r == reserved(c, n)
         IN  [r EXCEPT !.mem = [i \in 1..Len(r.mem) |->
                                    IF i > c.len /\ i <= n THEN b ELSE r.mem[i]],
                       !.len = n]

\* Drop for ClearOnDrop: volatile_set_memory(slice.as_ptr(), 0, slice.len())
\* for slice = container.as_mut(); then the container is freed.
drop(c) == [c EXCEPT !.mem = [i \in 1..Len(c.mem) |->
                                IF i \in as_mut(c) THEN 0 ELSE c.mem[i]]]

MaxVecLen == 3

MaxMutations == 3

\* The containers handed to ClearOnDrop::new: [1; 64] (test_clear_on_drop_array),
\* and a Vec or a String of up to MaxVecLen secret bytes, with or without
\* spare capacity.
NewContainers ==
    {new_clear_on_drop("array", KEY_LEN, KEY_LEN, 1)}
        \cup {new_clear_on_drop(kind, n, n + spare, SecretByte) :
                kind \in {"vec", "string"}, n \in 0..MaxVecLen, spare \in 0..1}

InitDrop ==
    /\ IdleBesidesDrop
    /\ container \in NewContainers
    /\ freed = {}
    /\ mutations = 0
    /\ dpc = "alive"

\* One call through deref_mut that may reallocate: the allocator moves the
\* allocation or extends it in place.
Mutated(c) ==
    /\ \E moved \in BOOLEAN :
        freed' = IF Len(c.mem) # Len(container.mem) /\ moved /\ Len(container.mem) > 0
                 THEN freed \cup {container.mem}
                 ELSE freed
    /\ container' = c
    /\ mutations' = mutations + 1
    /\ dpc' = dpc

\* buffer[i] = b: a byte of the slice is written (scrypt writes the master
\* key, rng.fill the seed, clone_from_slice the decoded bytes)
Write ==
    /\ dpc = "alive" /\ mutations < MaxMutations
    /\ \E i \in as_mut(container) \cap {1, 2, KEY_LEN}, b \in {SecretByte} :
        Mutated([container EXCEPT !.mem[i] = b])
    /\ UNCHANGED besidesDrop

Push ==
    /\ dpc = "alive" /\ mutations < MaxMutations
    /\ container.kind \in {"vec", "string"}
    /\ container.len < MaxVecLen
    /\ Mutated(push(container, SecretByte))
    /\ UNCHANGED besidesDrop

TruncateContainer ==
    /\ dpc = "alive" /\ mutations < MaxMutations
    /\ container.kind \in {"vec", "string"}
    /\ \E n \in 0..container.len : Mutated(truncate(container, n))
    /\ UNCHANGED besidesDrop

Resize ==
    /\ dpc = "alive" /\ mutations < MaxMutations
    /\ container.kind = "vec"
    /\ \E n \in 0..MaxVecLen : Mutated(resize(container, n, 0))
    /\ UNCHANGED besidesDrop

Drop ==
    /\ dpc = "alive"
    /\ container' = drop(container)
    /\ dpc' = "dropped"
    /\ UNCHANGED <<freed, mutations>>
    /\ UNCHANGED besidesDrop

NextDrop == TruncateContainer \/ Write \/ Push \/ Resize \/ Drop

SpecDrop == InitDrop /\ [][NextDrop]_vars

-----------------------------------------------------------------------------
(* Claims about ClearOnDrop. *)

AllZero(bytes) == \A i \in 1..Len(bytes) : bytes[i] = 0

\* C13: after the drop every byte of the memory of the container is zero,
\* for the array, the Vec and the String and after any pushes, truncations
\* and resizes: the whole allocation, and every allocation the container
\* had before.
C13_AllZeroAfterDrop ==
    dpc = "dropped" => (AllZero(container.mem) /\ \A block \in freed : AllZero(block))

-----------------------------------------------------------------------------
(* A run of main that prints the password of one site: generate_master_key *)
(* (main.rs 47-59), master_key_for_user_v3 (algorithm.rs 233-249) and the   *)
(* loop of main (321-362), with the variables that hold the bytes of the     *)
(* master password, the master key, the seed and the password.               *)

\* scrypt(password, salt, params, output) (algorithm.rs 246): 64 bytes that
\* are a function of password and salt.
scrypt(pw, salt) ==
    LET p == Sum(pw) + 3 * Len(pw)
        m == WeightedSumTo(salt, Len(salt))
    IN  [i \in 1..KEY_LEN |-> (p + m + 7 * i) % 256]

\* master_key_salt (237-243)
master_key_salt(name) ==
    scope_for_variant("Password") \o write_u32(Len(name)) \o name

\* master_key_for_user_v3(full_name, master_password)
master_key_for_user_v3(name, pw) == scrypt(pw, master_key_salt(name))

\* The variables of the source that hold bytes during the run, with
\* whether the type is a ClearOnDrop:
\*   master_password  String                  main.rs 50
\*   master_key       ClearOnDrop<[u8; 64]>   algorithm.rs 245
\*   digest           ring::digest::Digest    algorithm.rs 273
\*   password_string  ClearOnDrop<String>     algorithm.rs 290, main.rs 348
\*   buffer           ClearOnDrop<Vec<u8>>    main.rs 333
ContainerNames == {"master_password", "master_key", "digest", "password_string", "buffer"}

IsClearOnDrop(name) == name \in {"master_key", "password_string", "buffer"}

\* A variable before it is created.
Unborn == [holds |-> "nothing", wrapped |-> FALSE, state |-> "unborn"]

\* The variable `name` is created and filled with `what`.
Created(cs, name, what) ==
    [cs EXCEPT ![name] = [holds |-> what, wrapped |-> IsClearOnDrop(name),
                          state |-> "live"]]

\* The variable `name` goes out of scope: a ClearOnDrop zeroes its bytes
\* (Drop for ClearOnDrop), anything else is freed with its bytes.
Released(cs, name) ==
    [cs EXCEPT ![name].state =
        IF cs[name].state # "live" THEN @
        ELSE IF cs[name].wrapped THEN "zeroed" ELSE "freed",
               ![name].holds =
        IF cs[name].state = "live" /\ cs[name].wrapped THEN "nothing" ELSE @]

\* The sites of the run: a generated one of each type and variant, and a
\* stored one that holds "pw" encrypted under the master key of the user.
Targets(u) ==
    {[name |-> <<97>>, type_ |-> ty, counter |-> 1, variant |-> v,
      context |-> <<>>, encrypted |-> None] :
        ty \in GeneratedTypes, v \in {"Password", "Login"}}
    \cup
    {[name |-> <<97>>, type_ |-> "Stored", counter |-> 1, variant |-> "Password",
      context |-> <<>>,
      encrypted |-> Some(base64_encode(
            encrypt(<<112, 119>>,
                    master_key_for_user_v3(u.full_name, u.master_password),
                    Fill(min_buffer_len(2), 0), Fill(NONCE_LEN, 9)).val))]}

Users ==
    [full_name : {<<74>>, <<74, 32>>}, master_password : MasterPasswords]

InitSecret ==
    /\ IdleBesidesSecret
    /\ user \in Users
    /\ target \in Targets(user)
    /\ containers = [name \in ContainerNames |-> Unborn]
    /\ printed = [kind |-> "none", text |-> <<>>]
    /\ spc = "start"

\* main.rs 50: let master_password = read_password()
ReadPassword ==
    /\ spc = "start"
    /\ containers' = Created(containers, "master_password", "master_password")
    /\ spc' = "read"
    /\ UNCHANGED <<user, target, printed>>
    /\ UNCHANGED besidesSecret

\* main.rs 54-57, algorithm.rs 245-246: ClearOnDrop::new([0; 64]), scrypt
\* writes the master key to it.
MasterKeyForUser ==
    /\ spc = "read"
    /\ containers' = Created(containers, "master_key", "master_key")
    /\ spc' = "keyed"
    /\ UNCHANGED <<user, target, printed>>
    /\ UNCHANGED besidesSecret

\* main.rs 58-59: generate_master_key returns, master_password goes out of
\* scope.
ReturnMasterKey ==
    /\ spc = "keyed"
    /\ containers' = Released(containers, "master_password")
    /\ spc' = "loop"
    /\ UNCHANGED <<user, target, printed>>
    /\ UNCHANGED besidesSecret

\* main.rs 333: the buffer of the iteration; algorithm.rs 272-274: digest
\* is the seed of a generated password.
SignSeed ==
    /\ spc = "loop" /\ target.type_ # "Stored"
    /\ containers' = Created(Created(containers, "buffer", "nothing"),
                             "digest", "site_password_seed")
    /\ spc' = "signed"
    /\ UNCHANGED <<user, target, printed>>
    /\ UNCHANGED besidesSecret

\* algorithm.rs 277 and 284-298: generate_password pushes the password to a
\* ClearOnDrop<String>; 280: password_for_site_v3 returns, digest goes out
\* of scope.
GeneratePassword ==
    /\ spc = "signed"
    /\ containers' = Released(Created(containers, "password_string", "credential"),
                              "digest")
    /\ spc' = "resolved"
    /\ UNCHANGED <<user, target, printed>>
    /\ UNCHANGED besidesSecret

\* main.rs 333-343: the decoded bytes are copied to buffer and decrypted
\* in place.
DecryptStored ==
    /\ spc = "loop" /\ target.type_ = "Stored"
    /\ containers' = Created(containers, "buffer", "credential")
    /\ spc' = "resolved"
    /\ UNCHANGED <<user, target, printed>>
    /\ UNCHANGED besidesSecret

\* main.rs 360-361: the password is printed; password_string and buffer go
\* out of scope.
PrintPassword ==
    /\ spc = "resolved"
    /\ printed' = resolve_site(target,
                               master_key_for_user_v3(user.full_name,
                                                      user.master_password),
                               None, FALSE)
    /\ containers' = Released(Released(containers, "password_string"), "buffer")
    /\ spc' = "printed"
    /\ UNCHANGED <<user, target>>
    /\ UNCHANGED besidesSecret

\* main.rs 362: main returns, master_key goes out of scope.
ReturnMain ==
    /\ spc = "printed"
    /\ containers' = Released(containers, "master_key")
    /\ spc' = "end"
    /\ UNCHANGED <<user, target, printed>>
    /\ UNCHANGED besidesSecret

NextSecret ==
    \/ ReadPassword \/ MasterKeyForUser \/ ReturnMasterKey
    \/ SignSeed \/ GeneratePassword \/ DecryptStored
    \/ PrintPassword \/ ReturnMain

SpecSecret == InitSecret /\ [][NextSecret]_vars

-----------------------------------------------------------------------------
(* Claims about where the secrets of a run live. *)

FourSecrets == {"master_key", "master_password", "site_password_seed", "credential"}

\* C14: at every point of the run, each variable that holds (or was freed
\* holding) the master key, the master password, the seed or the
\* credential is a ClearOnDrop.
C14_SecretsOnlyInClearOnDrop ==
    \A name \in ContainerNames :
        containers[name].holds \in FourSecrets => containers[name].wrapped

-----------------------------------------------------------------------------
(* The calls of pad and unpad: algorithm.rs 454-486 and the tests 633-653. *)

MaxPadLen == 22

MaxPadExtra == 2

\* The buffers handed to pad for a text of n bytes: the text (bytes of
\* value 100 that end in a tail that looks like padding), followed by
\* bytes of one value up to a length of max(n + 1, PAD_LEN) + more.
PadBuffers(n, more) ==
    {Text(n, tail) \o Fill(padded_len(n) + more - n, b) :
        tail \in {t \in Tails : Len(t) <= n}, b \in BufferBytes \cup {100}}

InitPad ==
    /\ IdleBesidesPad
    /\ pad_len \in 0..MaxPadLen
    /\ pad_extra \in -1..MaxPadExtra
    /\ pad_buf \in PadBuffers(pad_len, pad_extra)
    /\ pad_result = Panicked
    /\ unpadded = Panicked
    /\ ppc = "init"

\* pad(&mut buf, len)
Pad ==
    /\ ppc = "init"
    /\ pad_result' = pad(pad_buf, pad_len)
    /\ ppc' = IF pad_result'.ok THEN "padded" ELSE "panic"
    /\ UNCHANGED <<pad_buf, pad_len, pad_extra, unpadded>>
    /\ UNCHANGED besidesPad

\* unpad(&buf), in a debug or a release build
Unpad ==
    /\ ppc = "padded"
    /\ \E debug \in BOOLEAN : unpadded' = unpad(pad_result.val, debug)
    /\ ppc' = "done"
    /\ UNCHANGED <<pad_buf, pad_len, pad_extra, pad_result>>
    /\ UNCHANGED besidesPad

NextPad == Pad \/ Unpad

SpecPad == InitPad /\ [][NextPad]_vars

-----------------------------------------------------------------------------
(* Claims about pad and unpad. *)

\* C15: for a buffer of exactly max(n + 1, PAD_LEN) bytes, pad does not
\* panic and leaves the first n bytes as they were, and unpad of the
\* padded buffer returns exactly these n bytes.
C15_UnpadInvertsPad ==
    (pad_extra = 0 /\ ppc # "init") =>
        /\ ppc # "panic"
        /\ pad_result.ok
        /\ Len(pad_result.val) = Len(pad_buf)
        /\ Slice(pad_result.val, 0, pad_len) = Slice(pad_buf, 0, pad_len)
        /\ ppc = "done" => unpadded = Ok(Slice(pad_buf, 0, pad_len))

\* unpad returned the PAD_LEN - 1 bytes of a text that ends in a byte of
\* value 1, and the PAD_LEN + 1 bytes of a text that ends in a zero byte.
C15_Witness ==
    /\ ppc = "done" /\ pad_extra = 0
    /\ \/ pad_len = PAD_LEN - 1 /\ pad_buf[pad_len] = 1
       \/ pad_len = PAD_LEN + 1 /\ pad_buf[pad_len] = 0
    /\ unpadded = Ok(Slice(pad_buf, 0, pad_len))

\* C21: for every buffer that passes the assertions of pad, longer ones
\* included, pad(buf, n) sets exactly the bytes [n, PAD_LEN) to PAD_LEN - n
\* if n < PAD_LEN and exactly the byte at position n to 0 if n >= PAD_LEN,
\* and leaves every other byte of the buffer as it was.
C21_PadWritesOnlyPadding ==
    (ppc \in {"padded", "done"}) =>
        /\ Len(pad_result.val) = Len(pad_buf)
        /\ \A i \in 0..(Len(pad_buf) - 1) :
            pad_result.val[i + 1] =
                IF pad_len < PAD_LEN /\ pad_len <= i /\ i < PAD_LEN
                THEN PAD_LEN - pad_len
                ELSE IF pad_len >= PAD_LEN /\ i = pad_len THEN 0
                ELSE pad_buf[i + 1]

-----------------------------------------------------------------------------
(* Config and SiteConfig: config.rs 8-16 and 51-138 *)

\* merge_options(old, new)
merge_options(old, new) ==
    CASE old # None /\ new # None -> new
      [] old # None /\ new = None -> old
      [] old = None /\ new # None -> new
      [] old = None /\ new = None -> None

\* Config::new()
new_config == [full_name |-> None, sites |-> None]

\* SiteConfig::new(name)
new_site_config(name) ==
    [name |-> name, type_ |-> None, counter |-> None, variant |-> None,
     context |-> None, encrypted |-> None]

\* The mutant of config_merge: the sites of the other Config replace the
\* sites of this one.
config_merge_replaces_sites(self, other) ==
    [full_name |-> IF other.full_name # None THEN other.full_name ELSE self.full_name,
     sites |-> IF other.sites # None THEN other.sites ELSE self.sites]

\* Config::merge(&mut self, other): self afterwards
config_merge(self, other) ==
    [full_name |-> IF other.full_name # None THEN other.full_name ELSE self.full_name,
     sites |-> IF other.sites # None
               THEN IF self.sites # None
                    THEN Some(self.sites[1] \o other.sites[1])
                    ELSE other.sites
               ELSE self.sites]

MaxSites == 2

MaxOtherSites == 1

MaxMerges == 2

\* "wikipedia.org" and "github.com" of test_config_merge, as "w" and "g"
MergedSites == {new_site_config(<<119>>), new_site_config(<<103>>)}

RECURSIVE Lists(_, _)
Lists(S, n) ==
    IF n = 0 THEN {<<>>}
    ELSE Lists(S, n - 1)
            \cup {Append(l, x) : l \in {m \in Lists(S, n - 1) : Len(m) = n - 1}, x \in S}

\* The Configs that are merged into, with "John Doe" and "Max" as "J" and
\* "M", and the Configs that are merged into them.
Configs ==
    [full_name : Options({<<74>>, <<77>>}),
     sites : Options(Lists(MergedSites, MaxSites))]

OtherConfigs ==
    [full_name : Options({<<74>>, <<77>>}),
     sites : Options(Lists(MergedSites, MaxOtherSites))]

InitConfigMerge ==
    /\ IdleBesidesConfigMerge
    /\ config_self \in Configs
    /\ config_first = config_self
    /\ config_before = config_self
    /\ merged = <<>>
    /\ cmpc = "run"

\* self.merge(other)
ConfigMerge ==
    /\ cmpc = "run"
    /\ Len(merged) < MaxMerges
    /\ \E other \in OtherConfigs :
        /\ config_self' = config_merge(config_self, other)
        /\ merged' = Append(merged, other)
    /\ config_before' = config_self
    /\ UNCHANGED <<config_first, cmpc>>
    /\ UNCHANGED besidesConfigMerge

NextConfigMerge == ConfigMerge

SpecConfigMerge == InitConfigMerge /\ [][NextConfigMerge]_vars

-----------------------------------------------------------------------------
(* Claims about Config::merge. *)

\* The list of an optional list: None has no entries.
ListOf(opt) == IF opt = None THEN <<>> ELSE opt[1]

\* The site lists of the first n merged Configs, one after the other.
RECURSIVE MergedSitesTo(_)
MergedSitesTo(n) ==
    IF n = 0 THEN <<>> ELSE MergedSitesTo(n - 1) \o ListOf(merged[n].sites)

\* C16: after self.merge(other) the full name is other's when other has
\* one and the previous one otherwise, and the sites are the previous
\* sites followed by other's, in order, nothing dropped or deduplicated;
\* so after a sequence of merges the sites are the first sites followed by
\* the sites of the merged Configs in the order of the merges.
C16_ConfigMerge ==
    Len(merged) > 0 =>
        LET other == merged[Len(merged)]
            all == MergedSitesTo(Len(merged))
            mine == ListOf(config_self.sites)
        IN  /\ config_self.full_name =
                    IF other.full_name # None THEN other.full_name
                    ELSE config_before.full_name
            /\ mine = ListOf(config_before.sites) \o ListOf(other.sites)
            /\ (config_self.sites = None) <=>
                    (config_before.sites = None /\ other.sites = None)
            /\ mine = ListOf(config_first.sites) \o all

\* Two Configs were merged into one that had two sites: the second has no
\* full name and the entry that the first had, which is now there twice.
C16_Witness ==
    /\ Len(merged) = 2
    /\ config_before.full_name # None /\ merged[2].full_name = None
    /\ config_self.full_name = config_before.full_name
    /\ Len(ListOf(config_first.sites)) = 2
    /\ Len(ListOf(merged[1].sites)) = 1
    /\ merged[2].sites = merged[1].sites
    /\ Len(ListOf(config_self.sites)) = 4
    /\ config_self.sites[1][3] = config_self.sites[1][4]

-----------------------------------------------------------------------------
(* SiteConfig::merge: config.rs 120-138 *)

\* The mutant of site_config_merge: the fields are merged with the old
\* value preferred.
site_config_merge_prefers_old(self, other) ==
    IF self.name # other.name
    THEN [result |-> Err("ConflictingFullName"), self |-> self]
    ELSE LET merged3 == [self EXCEPT
                            !.type_ = merge_options(other.type_, self.type_),
                            !.counter = merge_options(other.counter, self.counter),
                            !.variant = merge_options(other.variant, self.variant)]
         IN  IF ~(self.encrypted = None /\ other.encrypted = None)
             THEN [result |-> Err("ConflictingStoredPasswords"), self |-> merged3]
             ELSE [result |-> Ok(<<>>),
                   self |-> IF other.context # None
                            THEN [merged3 EXCEPT !.context = other.context]
                            ELSE merged3]

\* SiteConfig::merge(&mut self, other): what it returns and self
\* afterwards.  type_, counter and variant are assigned before the check
\* of the encrypted fields, context after it.
site_config_merge(self, other) ==
    IF self.name # other.name
    THEN [result |-> Err("ConflictingFullName"), self |-> self]
    ELSE LET merged3 == [self EXCEPT
                            !.type_ = merge_options(self.type_, other.type_),
                            !.counter = merge_options(self.counter, other.counter),
                            !.variant = merge_options(self.variant, other.variant)]
         IN  IF ~(self.encrypted = None /\ other.encrypted = None)
             THEN [result |-> Err("ConflictingStoredPasswords"), self |-> merged3]
             ELSE [result |-> Ok(<<>>),
                   self |-> IF other.context # None
                            THEN [merged3 EXCEPT !.context = other.context]
                            ELSE merged3]

\* The SiteConfigs that are merged: two names, two types, the counters,
\* two variants, two contexts and two encrypted fields, each field present
\* or not.
MergeSiteConfigs ==
    [name : ConfigNames,
     type_ : Options({"GeneratedLong", "Stored"}),
     counter : Options(1..MaxCounter),
     variant : Options({"Password", "Login"}),
     context : Options({<<>>, <<99>>}),
     encrypted : Options({<<"A">>, <<"B">>})]

InitSiteMerge ==
    /\ IdleBesidesSiteMerge
    /\ site_self \in MergeSiteConfigs
    /\ site_other \in MergeSiteConfigs
    /\ site_after = site_self
    /\ merge_result = Panicked
    /\ smpc = "init"

\* self.merge(other)
SiteMerge ==
    /\ smpc = "init"
    /\ LET m == site_config_merge(site_self, site_other)
       IN  /\ site_after' = m.self
           /\ merge_result' = m.result
    /\ smpc' = "done"
    /\ UNCHANGED <<site_self, site_other>>
    /\ UNCHANGED besidesSiteMerge

NextSiteMerge == SiteMerge

SpecSiteMerge == InitSiteMerge /\ [][NextSiteMerge]_vars

-----------------------------------------------------------------------------
(* Claims about SiteConfig::merge. *)

\* The value of a field after a merge that prefers the other's value.
Preferred(mine, theirs) == IF theirs # None THEN theirs ELSE mine

\* C17: when merge succeeds, type, counter, variant and context of self are
\* other's value where other has one and the previous value of self where it
\* has none, and the name is the one before.
C17_MergedFields ==
    (smpc = "done" /\ merge_result.ok) =>
        /\ site_after.name = site_self.name
        /\ site_after.type_ = Preferred(site_self.type_, site_other.type_)
        /\ site_after.counter = Preferred(site_self.counter, site_other.counter)
        /\ site_after.variant = Preferred(site_self.variant, site_other.variant)
        /\ site_after.context = Preferred(site_self.context, site_other.context)

\* A merge succeeded in which both have a type and a counter that differ,
\* only self has a variant and only other has a context.
C17_Witness ==
    /\ smpc = "done" /\ merge_result.ok
    /\ site_self.type_ # None /\ site_other.type_ # None
    /\ site_self.type_ # site_other.type_
    /\ site_self.counter = Some(1) /\ site_other.counter = Some(2)
    /\ site_self.variant # None /\ site_other.variant = None
    /\ site_self.context = None /\ site_other.context # None
    /\ site_after.type_ = site_other.type_ /\ site_after.counter = Some(2)
    /\ site_after.variant = site_self.variant

\* C18: merge returns ConflictingStoredPasswords only when both self and
\* other have an encrypted field, and a merge of two configs of one name of
\* which at most one has an encrypted field succeeds.
C18_ConflictNeedsTwoStored ==
    smpc = "done" =>
        /\ (~merge_result.ok /\ merge_result.val = "ConflictingStoredPasswords")
                => (site_self.encrypted # None /\ site_other.encrypted # None)
        /\ (/\ site_self.name = site_other.name
            /\ (site_self.encrypted = None \/ site_other.encrypted = None))
                => merge_result.ok

\* C24: whenever merge returns an error, ConflictingFullName or
\* ConflictingStoredPasswords, every field of self (name, type, counter,
\* variant, context, encrypted) has the value it had before the call.
C24_MergeAllOrNothing ==
    (smpc = "done" /\ ~merge_result.ok) =>
        /\ merge_result.val \in {"ConflictingFullName", "ConflictingStoredPasswords"}
        /\ site_after = site_self

-----------------------------------------------------------------------------
(* The runs of main with --add, --replace, --delete or --store, which read *)
(* the config file, change the Config and overwrite the file: main.rs       *)
(* 207-299.  `file` is the Config that the run read from the file, and   *)
(* afterwards the Config that it handed to Config::encode for the file.     *)

Writes == [kind |-> "write", text |-> <<>>]

\* The mutant of retained: the sites of the given name are removed, stored
\* passwords included.
retained_by_name_only(cfg, mode, param_name) ==
    IF mode \in {"replace", "delete"} /\ cfg.sites # None
    THEN LET Keep(s) == s.name # param_name
         IN  [cfg EXCEPT !.sites = Some(SelectSeq(cfg.sites[1], Keep))]
    ELSE cfg

\* main.rs 240-249: with --replace or --delete, sites.retain(..) removes the
\* sites of the given name unless they store a password.
retained(cfg, mode, param_name) ==
    IF mode \in {"replace", "delete"} /\ cfg.sites # None
    THEN LET Keep(s) == s.name # param_name \/ s.encrypted # None
         IN  [cfg EXCEPT !.sites = Some(SelectSeq(cfg.sites[1], Keep))]
    ELSE cfg

\* The mutant of stored_site: the type of the parameters is kept.
stored_site_keeps_type(param_site, name, master_pw, site_pw, nonce) ==
    LET key == master_key_for_user_v3(name, master_pw)
        buf == encrypt(site_pw, key, Fill(min_buffer_len(Len(site_pw)), 0), nonce)
    IN  [param_site EXCEPT !.encrypted = Some(base64_encode(buf.val))]

\* main.rs 264-281: with --store the master key is generated from the
\* full name and the master password that is typed, the site password
\* that is typed is encrypted with the nonce that is drawn, and the site
\* of the parameters gets the Base64 of the buffer and the type Stored.
stored_site(param_site, name, master_pw, site_pw, nonce) ==
    LET key == master_key_for_user_v3(name, master_pw)
        buf == encrypt(site_pw, key, Fill(min_buffer_len(Len(site_pw)), 0), nonce)
    IN  [param_site EXCEPT !.encrypted = Some(base64_encode(buf.val)),
                           !.type_ = Some("Stored")]

\* main for a run with the Config `cfg` of the config file, one of --add,
\* --replace, --delete and --store, and the parameters: what the run does
\* and the Config that the file holds afterwards.
overwrite_config(cfg, mode, params, master_pw, site_pw, nonce) ==
    LET param_config == [full_name |-> params.full_name,
                         sites |-> Some(<<params.site>>)]
        kept == retained(cfg, mode, params.site.name)
    IN  IF mode = "delete" THEN [outcome |-> Writes, config |-> kept]
        ELSE IF /\ kept.full_name # None /\ param_config.full_name # None
                /\ kept.full_name # param_config.full_name
        THEN [outcome |-> Exits("full name given as paramater conflicts with config"),
              config |-> cfg]
        ELSE IF mode = "store"
        THEN LET name == merge_options(kept.full_name, param_config.full_name)
             IN  IF name = None
                 THEN [outcome |-> Exits("need full name to generate master key"),
                       config |-> cfg]
                 ELSE [outcome |-> Writes,
                       config |-> config_merge(kept,
                            [param_config EXCEPT !.sites =
                                Some(<<stored_site(params.site, name[1],
                                                   master_pw, site_pw, nonce)>>)])]
        ELSE [outcome |-> Writes, config |-> config_merge(kept, param_config)]

Returns == [kind |-> "return", text |-> <<>>]

\* The loop of main (321-361) from the i-th site config on, after the
\* passwords `lines`: Site::from_config, exit(&e.message) on an error,
\* then the body of the loop.
RECURSIVE read_sites(_, _, _, _, _, _)
read_sites(site_configs, i, key, param_name, debug, lines) ==
    IF i > Len(site_configs) THEN [outcome |-> Returns, printed |-> lines]
    ELSE LET resolved == from_config(site_configs[i])
         IN  IF ~resolved.ok
             THEN [outcome |-> Exits(error_message(resolved.val)), printed |-> lines]
             ELSE LET did == resolve_site(resolved.val, key, param_name, debug)
                  IN  IF did.kind = "skip"
                      THEN read_sites(site_configs, i + 1, key, param_name, debug, lines)
                      ELSE IF did.kind = "print"
                      THEN read_sites(site_configs, i + 1, key, param_name, debug,
                                      Append(lines, [name |-> resolved.val.name,
                                                       password |-> did.text]))
                      ELSE [outcome |-> did, printed |-> lines]

\* main for a run that prints passwords (308-361) with the Config `cfg` of
\* the config file and the master password that is typed.
read_config(cfg, param_name, master_pw, debug) ==
    IF cfg.full_name = None
    THEN [outcome |-> Exits("need full name to generate master key"), printed |-> <<>>]
    ELSE IF cfg.sites = None
    THEN [outcome |-> Exits("need a site via command line parameters or via config"),
          printed |-> <<>>]
    ELSE read_sites(cfg.sites[1], 1, master_key_for_user_v3(cfg.full_name[1], master_pw),
                    param_name, debug, <<>>)

MaxFileSites == 2

MaxRuns == 2

\* The sites of a config file: "a" and "b" with nothing but the name, and
\* "a" with a stored password, as a --store run for the full name "J" with
\* the master password "q" and the site password "q" writes it.
FileSites ==
    {new_site_config(<<97>>), new_site_config(<<98>>),
     stored_site(new_site_config(<<97>>), <<74>>, <<113>>, <<113>>,
                 Fill(NONCE_LEN, 9))}

\* The config files: with or without the full name "J"
Files ==
    [full_name : Options({<<74>>}),
     sites : Options(Lists(FileSites, MaxFileSites))]

\* The parameters of a run: the site "a" or "b" with --type pin, and no
\* --name or the name "M"
RunParams ==
    [full_name : Options({<<77>>}),
     site : {[new_site_config(n) EXCEPT !.type_ = Some("GeneratedPIN")] :
                n \in ConfigNames}]

InitFile ==
    /\ IdleBesidesFile
    /\ file \in Files
    /\ file_before = file
    /\ run_mode = "none"
    /\ run_params = <<>>
    /\ run_outcome = [kind |-> "none", text |-> <<>>]
    /\ run_typed = None
    /\ run_printed = <<>>
    /\ stored_names = {}
    /\ runs = 0

\* One run of main with the mode and the parameters; the master password
\* "p" and the site password "pw" are typed when --store asks for them.
Run(mode) ==
    /\ runs < MaxRuns
    /\ \E params \in RunParams :
        LET r == overwrite_config(file, mode, params, <<112>>, <<112, 119>>,
                                  Fill(NONCE_LEN, 9))
        IN  /\ file' = r.config
            /\ run_outcome' = r.outcome
            /\ run_params' = params
            /\ stored_names' = IF mode = "store" /\ r.outcome = Writes
                               THEN stored_names \cup {params.site.name}
                               ELSE stored_names
    /\ run_typed' = IF mode = "store" /\ run_outcome'.kind = "write"
                    THEN Some(<<112>>) ELSE None
    /\ run_printed' = <<>>
    /\ file_before' = file
    /\ run_mode' = mode
    /\ runs' = runs + 1
    /\ UNCHANGED besidesFile

RunAdd == Run("add")

RunReplace == Run("replace")

RunDelete == Run("delete")

RunStore == Run("store")

NextFile == RunAdd \/ RunReplace \/ RunDelete \/ RunStore

SpecFile == InitFile /\ [][NextFile]_vars

\* The master passwords that are typed in a run without --store
TypedPasswords == {<<112>>, <<113>>}

\* A run with --config and --site and none of --add, --replace, --delete,
\* --store and --dump, in a debug or a release build: the file is left as
\* it is.  The merge of the parameters is skipped (250-253), so neither
\* --name nor --type has a part in such a run.
RunPlain ==
    /\ runs < MaxRuns
    /\ \E params \in {q \in RunParams : q.full_name = None},
          master_pw \in TypedPasswords, debug \in BOOLEAN :
        LET r == read_config(file, Some(params.site.name), master_pw, debug)
        IN  /\ run_outcome' = r.outcome
            /\ run_printed' = r.printed
            /\ run_params' = params
            /\ run_typed' = IF file.full_name # None /\ file.sites # None
                            THEN Some(master_pw) ELSE None
    /\ file_before' = file
    /\ run_mode' = "plain"
    /\ runs' = runs + 1
    /\ UNCHANGED <<file, stored_names>>
    /\ UNCHANGED besidesFile

\* The runs that store and print: --store and the runs without it.
NextStore == RunStore \/ RunPlain

SpecStore == InitFile /\ [][NextStore]_vars

-----------------------------------------------------------------------------
(* Claims about the runs that overwrite the config file. *)

\* The entries of a list that are not of the name or have an encrypted
\* field, in their order.
RECURSIVE WithoutPlain(_, _)
WithoutPlain(list, name) ==
    IF list = <<>> THEN <<>>
    ELSE LET rest == WithoutPlain(Tail(list), name)
         IN  IF Head(list).name = name /\ Head(list).encrypted = None
             THEN rest ELSE <<Head(list)>> \o rest

\* The entries of a list that have an encrypted field, in their order.
RECURSIVE StoredOf(_)
StoredOf(list) ==
    IF list = <<>> THEN <<>>
    ELSE IF Head(list).encrypted # None THEN <<Head(list)>> \o StoredOf(Tail(list))
    ELSE StoredOf(Tail(list))

\* C19: a run with --delete for the site s writes the previous list
\* without the entries of the name s that have no encrypted field, in the
\* previous order; a run with --replace writes that list followed by the
\* entry of the parameters; and the entries with an encrypted field are
\* the same before and after every such run, whatever their name.
C19_StoredSurvive ==
    (run_mode \in {"replace", "delete"} /\ run_outcome.kind = "write") =>
        LET before == ListOf(file_before.sites)
            after == ListOf(file.sites)
            s == run_params.site.name
        IN  /\ run_mode = "delete" => after = WithoutPlain(before, s)
            /\ run_mode = "replace" =>
                    after = WithoutPlain(before, s) \o <<run_params.site>>
            /\ StoredOf(after) = StoredOf(before)

\* A run with --replace for "a" wrote a list from which a plain entry for
\* "a" is gone, in which a stored entry for "a" is left and which ends in
\* the entry of the parameters.
C19_Witness ==
    /\ run_mode = "replace" /\ run_outcome.kind = "write"
    /\ run_params.site.name = <<97>>
    /\ Len(ListOf(file_before.sites)) = 2
    /\ file_before.sites[1][1].encrypted = None
    /\ file_before.sites[1][1].name = <<97>>
    /\ file_before.sites[1][2].encrypted # None
    /\ file_before.sites[1][2].name = <<97>>
    /\ file.sites = Some(<<file_before.sites[1][2], run_params.site>>)

\* What a --store run writes to the encrypted field for the site password
\* pw under the full name and the master password.
Sealed(pw, name, master_pw) ==
    base64_encode(encrypt(pw, master_key_for_user_v3(name, master_pw),
                          Fill(min_buffer_len(Len(pw)), 0), Fill(NONCE_LEN, 9)).val)

\* After a --store run for the site s with the site password "pw" the
\* config has one more entry, the last, for s, of the type Stored, with an
\* encrypted field that is the Base64 of min_buffer_len(2) bytes.
StoreAppends ==
    (run_mode = "store" /\ run_outcome = Writes) =>
        LET sites == ListOf(file.sites)
            last == sites[Len(sites)]
        IN  /\ Len(sites) = Len(ListOf(file_before.sites)) + 1
            /\ last.name = run_params.site.name
            /\ last.type_ = Some("Stored")
            /\ last.encrypted = Some(Sealed(<<112, 119>>, file.full_name[1], <<112>>))
            /\ base64_decode(last.encrypted[1]).ok
            /\ Len(base64_decode(last.encrypted[1]).val) = min_buffer_len(2)

\* The entries before the i-th resolve and, where the run does not skip
\* them, are printed under the key.
ReadableBefore(sites, i, key, s) ==
    \A j \in 1..(i - 1) : \A debug \in BOOLEAN :
        /\ from_config(sites[j]).ok
        /\ resolve_site(from_config(sites[j]).val, key, Some(s), debug).kind
                \in {"skip", "print"}

\* In a run without --store for the site s, with the master password "p",
\* the i-th entry of the config resolves to the type Stored and "pw" is
\* printed for it: the line of the i-th entry is the k-th of the run when k
\* of the first i entries are for s.
PrintsStored(i) ==
    LET sites == file.sites[1]
        s == run_params.site.name
        k == Cardinality({j \in 1..i : sites[j].name = s})
    IN  /\ from_config(sites[i]).ok
        /\ from_config(sites[i]).val.type_ = "Stored"
        /\ Len(run_printed) >= k
        /\ run_printed[k] = [name |-> s, password |-> <<112, 119>>]

\* A run without --store for a site s that a --store run has written,
\* with the master password of that run.
ReadsStored ==
    /\ run_mode = "plain" /\ run_typed = Some(<<112>>)
    /\ run_params.site.name \in stored_names

\* The entries that the --store runs for s have written.
WrittenByStore ==
    {i \in 1..Len(file.sites[1]) :
        /\ file.sites[1][i].name = run_params.site.name
        /\ file.sites[1][i].encrypted =
                Some(Sealed(<<112, 119>>, file.full_name[1], <<112>>))}

-----------------------------------------------------------------------------
(* The bits of entropy of the templates: entropy_of_template (algorithm.rs  *)
(* 380-389) and bits of test_template_entropy (algorithm.rs 550-572).  The  *)
(* f64 values are kept in millionths of a bit, rounded down.                *)

\* f64::log2 of a class size: the greatest m with 2^m <= n^1000000, that
\* is log2(n) in millionths of a bit, rounded down.  The sizes are those of
\* the character classes.
log2(n) ==
    CASE n = 1 -> 0
      [] n = 5 -> 2321928
      [] n = 10 -> 3321928
      [] n = 21 -> 4392317
      [] n = 24 -> 4584962
      [] n = 26 -> 4700439
      [] n = 52 -> 5700439
      [] n = 72 -> 6169925

\* ::std::f64::INFINITY, above every sum of the model
INFINITY == 2147483647

\* f64::min
f64_min(a, b) == IF a <= b THEN a ELSE b

\* The mutant of add_class: the bits are assigned, not added.
add_class_assigns(sum, class) ==
    LET class_chars == characters_in_class(class)
    IN  IF ~class_chars.ok THEN Panicked
        ELSE Ok(log2(Len(class_chars.val)))

\* One turn of the loop of entropy_of_template:
\* bits += characters_in_class(class).len().log2()
add_class(sum, class) ==
    LET class_chars == characters_in_class(class)
    IN  IF ~class_chars.ok THEN Panicked
        ELSE Ok(sum + log2(Len(class_chars.val)))

\* The floors that test_template_entropy asserts, in millionths of a bit
asserted_floor(ty) ==
    CASE ty = "GeneratedMaximum" -> 118400000
      [] ty = "GeneratedLong" -> 48100000
      [] ty = "GeneratedMedium" -> 30100000
      [] ty = "GeneratedBasic" -> 38400000
      [] ty = "GeneratedShort" -> 14400000
      [] ty = "GeneratedPIN" -> 13200000
      [] ty = "GeneratedName" -> 31200000
      [] ty = "GeneratedPhrase" -> 55700000

InitEntropy ==
    /\ IdleBesidesEntropy
    /\ ent_type \in GeneratedTypes
    /\ ent_template = 0
    /\ ent_pos = 0
    /\ ent_bits = 0
    /\ ent_min = INFINITY
    /\ epc = "templates"

\* for t in &templates_for_type(ty): entropy_of_template(*t) starts with
\* bits = 0.
EntropyOfTemplate ==
    /\ epc = "templates"
    /\ ent_template < Len(templates_for_type(ent_type).val)
    /\ ent_template' = ent_template + 1
    /\ ent_pos' = 0
    /\ ent_bits' = 0
    /\ epc' = "classes"
    /\ UNCHANGED <<ent_type, ent_min>>
    /\ UNCHANGED besidesEntropy

\* for class in template.chars(): the bits of the class are added.
AddClass ==
    /\ epc = "classes"
    /\ LET template == templates_for_type(ent_type).val[ent_template]
       IN  /\ ent_pos < Len(template)
           /\ LET added == add_class(ent_bits, template[ent_pos + 1])
              IN  IF added.ok
                  THEN ent_bits' = added.val /\ epc' = epc
                  ELSE ent_bits' = ent_bits /\ epc' = "panic"
    /\ ent_pos' = ent_pos + 1
    /\ UNCHANGED <<ent_type, ent_template, ent_min>>
    /\ UNCHANGED besidesEntropy

\* entropy_of_template returns bits: min = entropy_of_template(*t).min(min)
TakeMin ==
    /\ epc = "classes"
    /\ ent_pos = Len(templates_for_type(ent_type).val[ent_template])
    /\ ent_min' = f64_min(ent_bits, ent_min)
    /\ epc' = "templates"
    /\ UNCHANGED <<ent_type, ent_template, ent_pos, ent_bits>>
    /\ UNCHANGED besidesEntropy

\* bits(ty) returns min: assert!(bits(ty) > floor)
AssertFloor ==
    /\ epc = "templates"
    /\ ent_template = Len(templates_for_type(ent_type).val)
    /\ epc' = IF ent_min > asserted_floor(ent_type) THEN "asserted" ELSE "panic"
    /\ UNCHANGED <<ent_type, ent_template, ent_pos, ent_bits, ent_min>>
    /\ UNCHANGED besidesEntropy

NextEntropy == EntropyOfTemplate \/ AddClass \/ TakeMin \/ AssertFloor

SpecEntropy == InitEntropy /\ [][NextEntropy]_vars

-----------------------------------------------------------------------------
(* Claims about the entropy of the types. *)

\* The sum over the positions of a template of log2 of the class size, in
\* millionths of a bit (each term rounded down).
SumOfLog2(template) ==
    Sum([i \in 1..Len(template) |-> log2(Len(characters_in_class(template[i]).val))])

\* The minimum of that sum over the templates of a type.
MinOverTemplates(ty) ==
    LET templates == templates_for_type(ty).val
        sums == {SumOfLog2(templates[i]) : i \in 1..Len(templates)}
    IN  CHOOSE m \in sums : \A other \in sums : m <= other

\* The floors of the claim, in millionths of a bit.
Floors ==
    [GeneratedMaximum |-> 118400000, GeneratedLong |-> 48100000,
     GeneratedMedium |-> 30100000, GeneratedBasic |-> 38400000,
     GeneratedShort |-> 14400000, GeneratedPIN |-> 13200000,
     GeneratedName |-> 31200000, GeneratedPhrase |-> 55700000]

\* C20: when bits(ty) has gone through all templates of a generated type,
\* its value is the minimum over the templates of the sum over the
\* positions of log2 of the class size, it exceeds the floor of the type
\* (Maximum > 118.4, Long > 48.1, Medium > 30.1, Basic > 38.4, Short >
\* 14.4, PIN > 13.2, Name > 31.2, Phrase > 55.7 bits), and the assertion
\* of the test does not panic.
C20_EntropyFloors ==
    /\ epc # "panic"
    /\ (epc \in {"templates", "asserted"}
            /\ ent_template = Len(templates_for_type(ent_type).val)) =>
        /\ ent_min = MinOverTemplates(ent_type)
        /\ ent_min > Floors[ent_type]

\* The bits of Basic are those of its second template, less than those of
\* the first and the third, and the assertion passed.
C20_Witness ==
    /\ epc = "asserted"
    /\ ent_type = "GeneratedBasic"
    /\ ent_min = SumOfLog2(templates_for_type("GeneratedBasic").val[2])
    /\ ent_min < SumOfLog2(templates_for_type("GeneratedBasic").val[1])
    /\ ent_min = 38467979

-----------------------------------------------------------------------------
(* The site salt of names and contexts of any length: algorithm.rs 256-270. *)
(* A byte string is kept as its runs, a sequence of [octet, times] in which  *)
(* no run is empty and no two neighbours have the same octet, so that two    *)
(* byte strings are equal exactly when their runs are, and a name of         *)
(* hundreds of megabytes is a few runs.                                      *)

\* x followed by y
Join(x, y) ==
    IF x = <<>> THEN y
    ELSE IF y = <<>> THEN x
    ELSE IF x[Len(x)].octet = y[1].octet
    THEN SubSeq(x, 1, Len(x) - 1)
            \o <<[octet |-> y[1].octet, times |-> x[Len(x)].times + y[1].times]>>
            \o Tail(y)
    ELSE x \o y

\* n bytes of value b
Repeat(b, n) == IF n = 0 THEN <<>> ELSE <<[octet |-> b, times |-> n]>>

\* The runs of a sequence of bytes.
RECURSIVE Packed(_)
Packed(s) ==
    IF s = <<>> THEN <<>>
    ELSE Join(Packed(SubSeq(s, 1, Len(s) - 1)), Repeat(s[Len(s)], 1))

\* slice.len()
PackedLen(x) == Sum([i \in 1..Len(x) |-> x[i].times])

\* What is written for the context (264-269): nothing when it is empty.
packed_context_fields(context) ==
    IF context # <<>> THEN Join(Packed(write_u32(PackedLen(context))), context)
    ELSE <<>>

\* The mutant of packed_site_salt: the scope of the variant is not written.
packed_site_salt_without_scope(name, counter, variant, context) ==
    Join(Join(Join(Packed(write_u32(PackedLen(name))),
                   name),
              Packed(write_u32(counter))),
         packed_context_fields(context))

\* site_password_salt when it is handed to hmac::sign (256-270)
packed_site_salt(name, counter, variant, context) ==
    Join(Join(Join(Join(Packed(scope_for_variant(variant)),
                        Packed(write_u32(PackedLen(name)))),
                   name),
              Packed(write_u32(counter))),
         packed_context_fields(context))

\* The name lengths whose four bytes continue the scope of Password to the
\* scope of Login (".log") and to that of Answer (".ans").
LoginLength == ReadBigEndian(scope_for_variant("Login"), Len(scope_for_variant("Password")))

AnswerLength == ReadBigEndian(scope_for_variant("Answer"), Len(scope_for_variant("Password")))

\* For a site of another variant with an empty name, the counter 1 and a
\* context of zeros that ends in 0, 0, 0, 1: the name that, with the length
\* n, the variant Password, the counter 1 and no context, repeats what the
\* other salt has after "com.lyndir.masterpassword" and the four bytes
\* that n is written as.  `rest` is the scope of the other variant after
\* these.
ContinuingName(rest, n) ==
    Join(Join(Packed(rest \o write_u32(0) \o write_u32(1)),
              Packed(write_u32(n - Len(rest) - 8))),
         Repeat(0, n - Len(rest) - 12))

\* The context of that other site: n - Len(rest) - 8 bytes.
ContinuedContext(rest, n) ==
    Join(Repeat(0, n - Len(rest) - 9), Repeat(1, 1))

\* The names of the two calls: no name, "a", "a" and a zero byte, and, for
\* the lengths that end the scopes of Login and Answer and for one less,
\* the long names.
SaltNames ==
    {Packed(n) : n \in {<<>>, <<97>>, <<97, 0>>}}
        \cup {ContinuingName(<<105, 110>>, n) : n \in {LoginLength - 1, LoginLength}}
        \cup {ContinuingName(<<119, 101, 114>>, n) : n \in {AnswerLength - 1, AnswerLength}}

\* The contexts of the two calls: no context, "b", and the long contexts.
SaltContexts ==
    {Packed(c) : c \in {<<>>, <<98>>}}
        \cup {ContinuedContext(<<105, 110>>, n) : n \in {LoginLength - 1, LoginLength}}
        \cup {ContinuedContext(<<119, 101, 114>>, n) : n \in {AnswerLength - 1, AnswerLength}}

SaltSites ==
    [variant : SiteVariants, name : SaltNames, counter : {1, 2},
     context : SaltContexts]

InitSalt ==
    /\ IdleBesidesSalt
    /\ first_site \in SaltSites
    /\ second_site \in SaltSites
    /\ first_salt = <<>>
    /\ second_salt = <<>>
    /\ hpc = "init"

\* The first call composes its salt.
FirstSalt ==
    /\ hpc = "init"
    /\ first_salt' = packed_site_salt(first_site.name, first_site.counter,
                                      first_site.variant, first_site.context)
    /\ hpc' = "first"
    /\ UNCHANGED <<first_site, second_site, second_salt>>
    /\ UNCHANGED besidesSalt

\* The second call composes its salt.
SecondSalt ==
    /\ hpc = "first"
    /\ second_salt' = packed_site_salt(second_site.name, second_site.counter,
                                       second_site.variant, second_site.context)
    /\ hpc' = "done"
    /\ UNCHANGED <<first_site, second_site, first_salt>>
    /\ UNCHANGED besidesSalt

NextSalt == FirstSalt \/ SecondSalt

SpecSalt == InitSalt /\ [][NextSalt]_vars

-----------------------------------------------------------------------------
(* Claims about the site salts of two sites. *)

\* The bytes of a byte string that is kept as its runs.
RECURSIVE Unpacked(_)
Unpacked(x) ==
    IF x = <<>> THEN <<>> ELSE Fill(x[1].times, x[1].octet) \o Unpacked(Tail(x))

\* C25 as it is stated: two sites that differ in the variant, the name,
\* the counter or the context, with names and contexts of up to 2^32 - 1
\* bytes, have different salts.
C25_SaltInjective ==
    (hpc = "done" /\ first_site # second_site) => first_salt # second_salt

\* C25, for names shorter than the number that the bytes ".ans" are read
\* as (778137203): two sites that differ in the variant, the name, the
\* counter or the context have different salts, in particular two sites
\* of different variants and two sites of which one has no context.  The
\* salt of a site with a name and a context of a few bytes is site_salt of
\* their bytes.
C25_SaltInjectiveShortNames ==
    /\ (/\ hpc = "done" /\ first_site # second_site
        /\ PackedLen(first_site.name) < AnswerLength
        /\ PackedLen(second_site.name) < AnswerLength) =>
            first_salt # second_salt
    /\ (/\ hpc # "init"
        /\ PackedLen(first_site.name) <= MaxNameLen
        /\ PackedLen(first_site.context) <= MaxContextLen) =>
            Unpacked(first_salt) =
                site_salt(Unpacked(first_site.name), first_site.counter,
                          first_site.variant, Unpacked(first_site.context))

\* Two sites with names of less than that length were salted, one of the
\* variant Password with a long name whose length is written as ".anr",
\* and no context, one of the variant Answer with an empty name and a
\* long context: the salts differ in that byte.
C25_Witness ==
    /\ hpc = "done"
    /\ first_site.variant = "Password" /\ second_site.variant = "Answer"
    /\ PackedLen(first_site.name) = AnswerLength - 1
    /\ first_site.context = <<>>
    /\ second_site.name = <<>>
    /\ second_site.context = ContinuedContext(<<119, 101, 114>>, AnswerLength - 1)
    /\ first_site.counter = second_site.counter
    /\ first_salt # second_salt
    /\ PackedLen(first_salt) = PackedLen(second_salt)

====
